---- MODULE Spec2Model ----
(***************************************************************************)
(* Verification model of the credentials vault (package vault) of          *)
(* borg-collective: Vault.Unlock/Lock/CreateItem/SetItemValue/GetItem/      *)
(* GetItemForPeer/DeleteItem/SetRecoveryRecipient/VerifyPassphrase, the     *)
(* helpers of vault/utils.go and the upgrade step.                          *)
(*                                                                         *)
(* Every Go function is an operator that takes the machine state s         *)
(*   s.disk   the storage backend's files                                  *)
(*   s.v      the Vault struct (identityKey, metadataHmacSecret,            *)
(*            primaryRecipient, items)                                     *)
(*   s.proc   "running", or how the process ended ("fatal": log.Fatal,     *)
(*            "panic": a run-time panic)                                   *)
(*   s.n      backend calls made so far by the running operation           *)
(*   s.faults the backend calls (by index) that return an error            *)
(* and returns the state after it with its results.  Code after a call     *)
(* that ended the process is never run: every caller checks Dead first.    *)
(*                                                                         *)
(* Cryptography is symbolic: a hash is an injective tag of its input, a    *)
(* sealed or encrypted file records the key or recipients it was made for, *)
(* and a file with a flipped byte is Garbage, which no MAC or AEAD check   *)
(* accepts.  Item.Description and Item.ModifiedAt take part in no decision *)
(* of the code and are left out of the item record.                        *)
(***************************************************************************)
EXTENDS Integers, Sequences, FiniteSets, TLC

VARIABLES
  disk,     \* the backend: path -> file content, Absent for no file
  vault,    \* the Vault struct
  proc,     \* "running", "fatal" (log.Fatal) or "panic"
  build,    \* store.Version of the running build
  nextId,   \* the next uuid.New()
  clean,    \* no backend call has failed, no file was damaged, no crash so far
  last,     \* the last operation: its arguments and what it returned
  snap,     \* what Items and GetItem returned when the vault was last locked
  steps,    \* operations and disk events so far
  backend,  \* "reliable": no backend call fails; "faulty": calls may fail;
            \* "hostile": reliable, and a party without the vault's secrets
            \* writes to the storage path
  drone     \* the backup drone (cmd/drone), a program of its own: the part
            \* of it that a specification follows, NoDrone for the vault's

vars == <<disk, vault, proc, build, nextId, clean, last, snap, steps, backend, drone>>

\* ------------------------------------------------------------------ bounds
MaxItems == 2
\* operations in a run on a reliable backend
MaxOps == 7
\* operations in a run on a faulty backend, and failing calls in one operation
MaxFaultyOps == 4
MaxFaults == 2

\* --------------------------------------------------------------- constants
\* store.Version of a build without -ldflags: 0.0.0+devel
VersionDevel == 0
\* versionBeforeRecoveryVerified: 0.2.0
versionBeforeRecoveryVerified == 2
\* a tagged release after 0.2.0 (make build-ci -X main.version=...)
VersionRelease == 3
\* SetRecoveryRecipient: attempts at restoring the previous recipient
restoreAttempts == 3

Ids == 1..MaxItems
Versions == {VersionDevel, VersionRelease}
Passphrases == {"correct horse", "wrong"}
Peers == {"10.0.0.1", "10.0.0.2"}
Recipients == {"age1r1", "age1r2"}
\* plaintext values: the empty value and two one-byte values
Values == {<<>>, <<104>>, <<105>>}
Secure == TRUE
sentinel == "sentinel"

NoErr == "nil"
NoPeer == "<nil>"
NoBuf == <<>>
Absent == [k |-> "absent"]
Garbage == [k |-> "garbage"]
Nil == [k |-> "nil"]
NoRcpt == "<nil>"

\* the vault's age identity (age.GenerateX25519Identity) and its public half
TheIdentity == [k |-> "x25519", name |-> "AGE-SECRET-KEY-1"]
Recipient(identity) == [k |-> "recipient", name |-> identity.name]
RecoveryRcpt(r) == [k |-> "recipient", name |-> r]

\* the files of the vault root; Path(".bak", id) is the newest backup of the
\* item's value under .bak/ (backupPath names each backup by the time it is made)
Path(f, id) == [f |-> f, id |-> id]
Paths == {Path(f, 0) : f \in {".identity", ".recovery", ".recovery.sum", ".version"}}
         \cup {Path(f, id) : f \in {".json", ".age", ".bak"}, id \in Ids}

\* ------------------------------------------------------------- the backend
\* "x := f(...); rest" of the code is Bind(f(...), LAMBDA x : rest)
Bind(x, F(_)) == F(x)

Dead(s) == s.proc # "running"
Tick(s) == [s EXCEPT !.n = @ + 1]
Fails(s) == (s.n + 1) \in s.faults

\* Backend.ReadFile(path): (bytes, err); bytes is nil for a file that is not there
ReadFile(s, p) ==
  [s |-> Tick(s), err |-> Fails(s), data |-> IF Fails(s) THEN Absent ELSE s.disk[p]]

\* Backend.WriteFile(path, bytes): err; a failed write leaves the file as it was
WriteFile(s, p, bytes) ==
  [s |-> IF Fails(s) THEN Tick(s) ELSE [Tick(s) EXCEPT !.disk[p] = bytes], err |-> Fails(s)]

\* Backend.DeleteFile(path): (removed, err)
DeleteFile(s, p) ==
  [s |-> IF Fails(s) THEN Tick(s) ELSE [Tick(s) EXCEPT !.disk[p] = Absent],
   err |-> Fails(s),
   ok |-> ~Fails(s) /\ s.disk[p] # Absent]

\* Backend.ListFiles(""): the names in the vault root; only the *.json names
\* matter to the caller, so the listing is the set of ids with a metadata file
ListFiles(s) ==
  [s |-> Tick(s), err |-> Fails(s),
   names |-> IF Fails(s) THEN {} ELSE {id \in Ids : s.disk[Path(".json", id)] # Absent}]

\* ---------------------------------------------------------------- utils.go
sum(data) == <<"sha256", data>>
EmptySum == <<>>
hmac(secret, body) == [k |-> "hmac", key |-> secret, body |-> body]

metadataPath(item) == Path(".json", item.id)
valuePath(item) == Path(".age", item.id)
backupPath(item) == Path(".bak", item.id)

createRecoveryHash(recipient, secret) == sum(<<recipient, secret>>)

\* the key both Unlock and VerifyPassphrase derive from a passphrase
deriveKey(passphrase) ==
  IF Secure THEN sum(<<passphrase, sentinel>>) ELSE sum(<<passphrase>>)

\* file contents
Text(x) == [k |-> "text", text |-> x]
HexSum(x) == [k |-> "hex", hex |-> x]
SemVer(x) == [k |-> "semver", ver |-> x]
Sealed(key, identity) == [k |-> "sealed", key |-> key, identity |-> identity]
Json(item, mac) == [k |-> "json", item |-> item, mac |-> mac]
Age(rcpts, pt) == [k |-> "age", rcpts |-> rcpts, pt |-> pt]

\* memguard.NewEnclave(bytes)
Enclave(data) == [k |-> "enclave", data |-> data]

\* type Item struct
Item(id, peer, checksum) == [id |-> id, peer |-> peer, checksum |-> checksum]

\* map[uuid.UUID]Item: nil (Nil), or a map
Map(m) == [k |-> "map", m |-> m]
EmptyMap == Map([x \in {} |-> x])
MapHas(items, id) == items # Nil /\ id \in DOMAIN items.m
MapPut(items, id, item) ==
  Map([x \in DOMAIN items.m \cup {id} |-> IF x = id THEN item ELSE items.m[x]])
MapDel(items, id) == Map([x \in DOMAIN items.m \ {id} |-> items.m[x]])

deriveMetadataHmacSecret(identity) == Enclave(sum(<<identity.name>>))

\* age.ParseX25519Recipient on the bytes of .recovery
ParsesAsRecipient(data) == data.k = "text"

loadRecoveryRecipient(s, secret) ==
  Bind(ReadFile(s, Path(".recovery", 0)), LAMBDA r1 :
    IF r1.err THEN [s |-> r1.s, err |-> "io error", rcpt |-> NoRcpt]
    ELSE IF r1.data = Absent THEN [s |-> r1.s, err |-> NoErr, rcpt |-> NoRcpt]
    ELSE Bind(ReadFile(r1.s, Path(".recovery.sum", 0)), LAMBDA r2 :
      IF r2.err THEN [s |-> r2.s, err |-> "io error", rcpt |-> NoRcpt]
      ELSE IF r2.data = Absent
        THEN [s |-> r2.s, err |-> ".recovery.sum is missing", rcpt |-> NoRcpt]
      ELSE IF ~ParsesAsRecipient(r1.data)
        THEN [s |-> r2.s, err |-> "malformed recipient", rcpt |-> NoRcpt]
      ELSE IF r2.data # HexSum(createRecoveryHash(r1.data.text, secret))
        THEN [s |-> r2.s, err |-> ".recovery.sum does not match", rcpt |-> NoRcpt]
      ELSE [s |-> r2.s, err |-> NoErr, rcpt |-> r1.data.text]))

writeRecoveryRecipient(s, recipient, secret) ==
  Bind(WriteFile(s, Path(".recovery", 0), Text(recipient)), LAMBDA w1 :
    IF w1.err THEN [s |-> w1.s, err |-> "io error"]
    ELSE Bind(WriteFile(w1.s, Path(".recovery.sum", 0),
                        HexSum(createRecoveryHash(recipient, secret))), LAMBDA w2 :
      IF w2.err THEN [s |-> DeleteFile(w2.s, Path(".recovery", 0)).s, err |-> "io error"]
      ELSE [s |-> w2.s, err |-> NoErr]))

\* readIdentity: AES-GCM opens the file only under the key that sealed it
readIdentity(s, identityKey) ==
  Bind(ReadFile(s, Path(".identity", 0)), LAMBDA r :
    IF r.err THEN [s |-> r.s, err |-> "io error", identity |-> Nil]
    ELSE IF r.data = Absent
      THEN [s |-> [r.s EXCEPT !.proc = "panic"], err |-> "panic", identity |-> Nil]
    ELSE IF r.data.k # "sealed" \/ r.data.key # identityKey
      THEN [s |-> r.s, err |-> "cipher: message authentication failed", identity |-> Nil]
    ELSE [s |-> r.s, err |-> NoErr, identity |-> r.data.identity])

writeIdentity(s, identityKey, identity) ==
  Bind(WriteFile(s, Path(".identity", 0), Sealed(identityKey, identity)), LAMBDA w :
    [s |-> w.s, err |-> IF w.err THEN "io error" ELSE NoErr])

readItemMetadataUnsafe(s, id, hmacSecret) ==
  Bind(ReadFile(s, Path(".json", id)), LAMBDA r :
    IF r.err THEN [s |-> r.s, err |-> "io error", item |-> Nil]
    ELSE IF r.data = Absent
      THEN [s |-> r.s, err |-> "metadata file not found", item |-> Nil]
    ELSE IF r.data.k # "json" \/ r.data.mac # hmac(hmacSecret, r.data.item)
      THEN [s |-> r.s, err |-> "invalid metadata: checksum mismatch", item |-> Nil]
    ELSE IF Path(".json", id) # metadataPath(r.data.item)
      THEN [s |-> r.s, err |-> "metadata path doesn't match item id", item |-> Nil]
    ELSE [s |-> r.s, err |-> NoErr, item |-> r.data.item])

\* the listing in the order the backend returns it (ascending here)
RECURSIVE SortedSeq(_)
SortedSeq(S) ==
  IF S = {} THEN <<>>
  ELSE Bind(CHOOSE x \in S : \A y \in S : x <= y, LAMBDA m : <<m>> \o SortedSeq(S \ {m}))

\* the loop of readAllMetadataUnsafe over the listing: an entry that fails to
\* read or verify is skipped
RECURSIVE readEntries(_, _, _, _)
readEntries(s, listing, hmacSecret, items) ==
  IF listing = <<>> THEN [s |-> s, items |-> items]
  ELSE Bind(readItemMetadataUnsafe(s, Head(listing), hmacSecret), LAMBDA r :
         readEntries(r.s, Tail(listing), hmacSecret,
                     IF r.err # NoErr THEN items ELSE MapPut(items, r.item.id, r.item)))

readAllMetadataUnsafe(s, hmacSecret) ==
  Bind(ListFiles(s), LAMBDA l :
    IF l.err THEN [s |-> l.s, err |-> "error reading directory", items |-> Nil]
    ELSE Bind(readEntries(l.s, SortedSeq(l.names), hmacSecret, EmptyMap), LAMBDA e :
      [s |-> e.s, err |-> NoErr, items |-> e.items]))

\* copyFile without its WriteFile
copyFileNoWrite(s, src, dest) ==
  Bind(ReadFile(s, src), LAMBDA r :
    IF r.err THEN [s |-> r.s, err |-> "io error"]
    ELSE IF r.data = Absent THEN [s |-> r.s, err |-> "file does not exist"]
    ELSE [s |-> r.s, err |-> NoErr])

writeItemMetadataUnsafe(s, item, hmacSecret) ==
  Bind(WriteFile(s, metadataPath(item), Json(item, hmac(hmacSecret, item))), LAMBDA w :
    [s |-> w.s, err |-> IF w.err THEN "io error" ELSE NoErr])

copyFile(s, src, dest) ==
  Bind(ReadFile(s, src), LAMBDA r :
    IF r.err THEN [s |-> r.s, err |-> "io error"]
    ELSE IF r.data = Absent THEN [s |-> r.s, err |-> "file does not exist"]
    ELSE Bind(WriteFile(r.s, dest, r.data), LAMBDA w :
      [s |-> w.s, err |-> IF w.err THEN "io error" ELSE NoErr]))

\* ---------------------------------------------------------------- upgrade
\* semver.NewVersion on the bytes of .version
ParsesAsVersion(data) == data.k = "semver"

\* the branch of upgrade for a vault of version <= 0.2.0 (or of no version)
upgradeRecoverySum(s, secret) ==
  Bind(ReadFile(s, Path(".recovery.sum", 0)), LAMBDA rs :
    IF rs.err THEN [s |-> rs.s, err |-> "io error"]
    ELSE IF rs.data # Absent THEN [s |-> rs.s, err |-> ".recovery.sum exists"]
    ELSE Bind(ReadFile(rs.s, Path(".recovery", 0)), LAMBDA rr :
      IF rr.err THEN [s |-> rr.s, err |-> "io error"]
      ELSE IF rr.data = Absent THEN [s |-> rr.s, err |-> NoErr]
      ELSE IF ~ParsesAsRecipient(rr.data) THEN [s |-> rr.s, err |-> "malformed recipient"]
      ELSE Bind(WriteFile(rr.s, Path(".recovery.sum", 0),
                          HexSum(createRecoveryHash(rr.data.text, secret))), LAMBDA ws :
        [s |-> ws.s, err |-> IF ws.err THEN "io error" ELSE NoErr])))

upgradeWriteVersion(s) ==
  Bind(WriteFile(s, Path(".version", 0), SemVer(s.build)), LAMBDA wv :
    [s |-> wv.s, err |-> IF wv.err THEN "io error" ELSE NoErr])

upgrade(s, secret) ==
  Bind(ReadFile(s, Path(".version", 0)), LAMBDA rv :
    IF rv.err THEN [s |-> rv.s, err |-> "io error"]
    ELSE IF rv.data # Absent /\ ~ParsesAsVersion(rv.data)
      THEN [s |-> rv.s, err |-> "invalid semantic version"]
    ELSE IF rv.data = Absent \/ rv.data.ver <= versionBeforeRecoveryVerified
      THEN Bind(upgradeRecoverySum(rv.s, secret), LAMBDA u :
             IF u.err # NoErr THEN u ELSE upgradeWriteVersion(u.s))
    ELSE upgradeWriteVersion(rv.s))

\* ------------------------------------------------------------------- Vault
NilVault == [identityKey |-> Nil, metadataHmacSecret |-> Nil,
             primaryRecipient |-> Nil, items |-> Nil]

IsLocked(s) == s.v.identityKey = Nil

Panic(s) == [s EXCEPT !.proc = "panic"]
Fatal(s) == [s EXCEPT !.proc = "fatal"]

\* Unlock from line 178 on: open the metadata secret, upgrade, load the items
UnlockLoad(s) ==
  Bind(upgrade(s, s.v.metadataHmacSecret.data), LAMBDA u :
    IF u.err # NoErr THEN [s |-> u.s, err |-> "failed to upgrade vault"]
    ELSE Bind(readAllMetadataUnsafe(u.s, s.v.metadataHmacSecret.data), LAMBDA m :
      IF m.err # NoErr
        THEN [s |-> [m.s EXCEPT !.v = NilVault], err |-> "failed to verify passphrase"]
      ELSE [s |-> [m.s EXCEPT !.v.items = m.items], err |-> NoErr]))

\* Unlock at lines 154-155 and 174-175
UnlockKeyed(s, identity) ==
  UnlockLoad([s EXCEPT !.v.metadataHmacSecret = deriveMetadataHmacSecret(identity),
                       !.v.primaryRecipient = Recipient(identity)])

\* Unlock, had it compared the passphrase with the key in memory when the
\* vault is unlocked
UnlockComparing(s, passphrase) ==
  IF ~IsLocked(s)
    THEN [s |-> s, err |-> IF s.v.identityKey = Enclave(deriveKey(passphrase)) THEN NoErr
                           ELSE "failed to verify passphrase"]
  ELSE Bind(ReadFile([s EXCEPT !.v.identityKey = Enclave(deriveKey(passphrase))],
                     Path(".identity", 0)), LAMBDA r :
    IF r.err
      THEN [s |-> [r.s EXCEPT !.v.identityKey = Nil], err |-> "failed to verify passphrase"]
    ELSE IF r.data # Absent
      THEN Bind(readIdentity(r.s, deriveKey(passphrase)), LAMBDA ri :
             IF Dead(ri.s) THEN [s |-> ri.s, err |-> "panic"]
             ELSE IF ri.err # NoErr
               THEN [s |-> [ri.s EXCEPT !.v.identityKey = Nil],
                     err |-> "failed to verify passphrase"]
             ELSE UnlockKeyed(ri.s, ri.identity))
    ELSE Bind(writeIdentity(r.s, deriveKey(passphrase), TheIdentity), LAMBDA wi :
           IF wi.err # NoErr THEN [s |-> wi.s, err |-> "failed to verify passphrase"]
           ELSE UnlockKeyed(wi.s, TheIdentity)))

Unlock(s, passphrase) ==
  IF ~IsLocked(s) THEN [s |-> s, err |-> NoErr]
  ELSE Bind(ReadFile([s EXCEPT !.v.identityKey = Enclave(deriveKey(passphrase))],
                     Path(".identity", 0)), LAMBDA r :
    IF r.err
      THEN [s |-> [r.s EXCEPT !.v.identityKey = Nil], err |-> "failed to verify passphrase"]
    ELSE IF r.data # Absent
      THEN Bind(readIdentity(r.s, deriveKey(passphrase)), LAMBDA ri :
             IF Dead(ri.s) THEN [s |-> ri.s, err |-> "panic"]
             ELSE IF ri.err # NoErr
               THEN [s |-> [ri.s EXCEPT !.v.identityKey = Nil],
                     err |-> "failed to verify passphrase"]
             ELSE UnlockKeyed(ri.s, ri.identity))
    ELSE Bind(writeIdentity(r.s, deriveKey(passphrase), TheIdentity), LAMBDA wi :
           IF wi.err # NoErr THEN [s |-> wi.s, err |-> "failed to verify passphrase"]
           ELSE UnlockKeyed(wi.s, TheIdentity)))

\* VerifyPassphrase, had it opened .identity with the candidate as Unlock does
VerifyPassphraseFromDisk(s, passphrase) ==
  IF IsLocked(s) THEN [s |-> s, err |-> "vault is locked"]
  ELSE Bind(readIdentity(s, deriveKey(passphrase)), LAMBDA ri :
         [s |-> ri.s, err |-> IF ri.err # NoErr THEN "failed to verify passphrase" ELSE NoErr])

VerifyPassphrase(s, passphrase) ==
  IF IsLocked(s) THEN [s |-> s, err |-> "vault is locked"]
  ELSE IF deriveKey(passphrase) # s.v.identityKey.data
    THEN [s |-> s, err |-> "failed to verify passphrase"]
  ELSE [s |-> s, err |-> NoErr]

Lock(s) ==
  IF IsLocked(s) THEN [s |-> s, err |-> "vault is locked"]
  ELSE [s |-> [s EXCEPT !.v = NilVault], err |-> NoErr]

\* Items: the values of the item map; ranging over a nil map yields nothing
Items(s) ==
  [s |-> s, err |-> NoErr,
   list |-> IF s.v.items = Nil THEN {} ELSE {s.v.items.m[id] : id \in DOMAIN s.v.items.m}]

\* age.Decrypt under the primary identity: fails on a damaged file and on a
\* file not encrypted to the identity; every failure is log.Fatal
decryptFromRestUnsafe(s, data) ==
  Bind(readIdentity(s, s.v.identityKey.data), LAMBDA ri :
    IF Dead(ri.s) THEN [s |-> ri.s, err |-> "panic", value |-> NoBuf]
    ELSE IF ri.err # NoErr THEN [s |-> Fatal(ri.s), err |-> "fatal", value |-> NoBuf]
    ELSE IF data.k # "age" \/ Recipient(ri.identity) \notin data.rcpts
      THEN [s |-> Fatal(ri.s), err |-> "fatal", value |-> NoBuf]
    ELSE [s |-> ri.s, err |-> NoErr, value |-> data.pt])

\* age.Encrypt to the primary recipient and, when one is installed and
\* verifies, the recovery recipient; every failure is log.Fatal
\* encryptForRestUnsafe, had it encrypted to the primary recipient alone
encryptForRestUnsafePrimaryOnly(s, value) ==
  IF s.v.metadataHmacSecret = Nil THEN [s |-> Panic(s), err |-> "panic", data |-> Absent]
  ELSE [s |-> s, err |-> NoErr, data |-> Age({s.v.primaryRecipient}, value)]

encryptForRestUnsafe(s, value) ==
  IF s.v.metadataHmacSecret = Nil THEN [s |-> Panic(s), err |-> "panic", data |-> Absent]
  ELSE Bind(loadRecoveryRecipient(s, s.v.metadataHmacSecret.data), LAMBDA lr :
    IF lr.err # NoErr THEN [s |-> Fatal(lr.s), err |-> "fatal", data |-> Absent]
    ELSE [s |-> lr.s, err |-> NoErr,
          data |-> Age({s.v.primaryRecipient} \cup
                       (IF lr.rcpt = NoRcpt THEN {} ELSE {RecoveryRcpt(lr.rcpt)}), value)])

readItemValueUnsafe(s, item) ==
  Bind(ReadFile(s, valuePath(item)), LAMBDA r :
    IF r.err THEN [s |-> r.s, err |-> "failed to read item value", value |-> NoBuf]
    ELSE IF r.data = Absent
      THEN [s |-> r.s, err |-> "item value file not found", value |-> NoBuf]
    ELSE Bind(decryptFromRestUnsafe(r.s, r.data), LAMBDA d :
      IF Dead(d.s) THEN [s |-> d.s, err |-> d.err, value |-> NoBuf]
      ELSE IF sum(d.value) # item.checksum
        THEN [s |-> d.s, err |-> "checksum mismatch", value |-> NoBuf]
      ELSE [s |-> d.s, err |-> NoErr, value |-> <<d.value>>]))

\* verifyPeerUnsafe, had it pinned whichever peer asked last
verifyPeerUnsafeRepin(s, item, peer) ==
  IF s.v.metadataHmacSecret = Nil THEN [s |-> Panic(s), err |-> "panic"]
  ELSE IF item.peer # peer
    THEN Bind(writeItemMetadataUnsafe(s, [item EXCEPT !.peer = peer],
                                      s.v.metadataHmacSecret.data), LAMBDA w :
           IF w.err # NoErr THEN [s |-> w.s, err |-> "failed to write item metadata"]
           ELSE [s |-> [w.s EXCEPT !.v.items = MapPut(@, item.id, [item EXCEPT !.peer = peer])],
                 err |-> NoErr])
  ELSE [s |-> s, err |-> NoErr]

verifyPeerUnsafe(s, item, peer) ==
  IF s.v.metadataHmacSecret = Nil THEN [s |-> Panic(s), err |-> "panic"]
  ELSE IF item.peer = NoPeer
    THEN Bind(writeItemMetadataUnsafe(s, [item EXCEPT !.peer = peer],
                                      s.v.metadataHmacSecret.data), LAMBDA w :
           IF w.err # NoErr THEN [s |-> w.s, err |-> "failed to write item metadata"]
           ELSE [s |-> [w.s EXCEPT !.v.items = MapPut(@, item.id, [item EXCEPT !.peer = peer])],
                 err |-> NoErr])
  ELSE IF item.peer # peer THEN [s |-> s, err |-> "client credentials mismatch"]
  ELSE [s |-> s, err |-> NoErr]

\* writeItemValueFiles, had it kept the checksum of the previous value
writeItemValueFilesStaleChecksum(s, item, value, ageBytes) ==
  Bind(WriteFile(s, valuePath(item), ageBytes), LAMBDA wv :
    IF wv.err THEN [s |-> wv.s, err |-> "failed to write item value"]
    ELSE Bind(writeItemMetadataUnsafe(wv.s, item, s.v.metadataHmacSecret.data), LAMBDA wm :
      IF wm.err # NoErr THEN [s |-> wm.s, err |-> "failed to write item metadata"]
      ELSE IF wm.s.v.items = Nil THEN [s |-> Panic(wm.s), err |-> "panic"]
      ELSE [s |-> [wm.s EXCEPT !.v.items = MapPut(@, item.id, item)], err |-> NoErr]))

\* writeItemValueFiles, had it written a fresh Item (no peer) with the checksum
writeItemValueFilesFreshItem(s, item, value, ageBytes) ==
  Bind(WriteFile(s, valuePath(item), ageBytes), LAMBDA wv :
    IF wv.err THEN [s |-> wv.s, err |-> "failed to write item value"]
    ELSE Bind(writeItemMetadataUnsafe(wv.s, Item(item.id, NoPeer, sum(value)),
                                      s.v.metadataHmacSecret.data), LAMBDA wm :
      IF wm.err # NoErr THEN [s |-> wm.s, err |-> "failed to write item metadata"]
      ELSE IF wm.s.v.items = Nil THEN [s |-> Panic(wm.s), err |-> "panic"]
      ELSE [s |-> [wm.s EXCEPT !.v.items =
                     MapPut(@, item.id, Item(item.id, NoPeer, sum(value)))],
            err |-> NoErr]))

\* writeItemValueUnsafe from line 545 on: checksum, value file, metadata, map
writeItemValueFiles(s, item, value, ageBytes) ==
  Bind(WriteFile(s, valuePath(item), ageBytes), LAMBDA wv :
    IF wv.err THEN [s |-> wv.s, err |-> "failed to write item value"]
    ELSE Bind(writeItemMetadataUnsafe(wv.s, [item EXCEPT !.checksum = sum(value)],
                                      s.v.metadataHmacSecret.data), LAMBDA wm :
      IF wm.err # NoErr THEN [s |-> wm.s, err |-> "failed to write item metadata"]
      ELSE IF wm.s.v.items = Nil THEN [s |-> Panic(wm.s), err |-> "panic"]
      ELSE [s |-> [wm.s EXCEPT !.v.items =
                     MapPut(@, item.id, [item EXCEPT !.checksum = sum(value)])],
            err |-> NoErr]))

writeItemValueUnsafe(s, item, value) ==
  Bind(encryptForRestUnsafe(s, value), LAMBDA e :
    IF Dead(e.s) THEN [s |-> e.s, err |-> e.err]
    ELSE IF item.checksum # EmptySum
      THEN Bind(copyFile(e.s, valuePath(item), backupPath(item)), LAMBDA c :
             IF c.err # NoErr
               THEN [s |-> c.s, err |-> "failed to create backup of previous value"]
             ELSE writeItemValueFiles(c.s, item, value, e.data))
    ELSE writeItemValueFiles(e.s, item, value, e.data))

\* deleteItemUnsafe, had it left the value file behind
deleteItemUnsafeKeepValue(s, id) ==
  IF ~MapHas(s.v.items, id) THEN [s |-> s, ok |-> FALSE]
  ELSE [s |-> DeleteFile([s EXCEPT !.v.items = MapDel(@, id)],
                         metadataPath(s.v.items.m[id])).s, ok |-> TRUE]

deleteItemUnsafe(s, id) ==
  IF ~MapHas(s.v.items, id) THEN [s |-> s, ok |-> FALSE]
  ELSE Bind(DeleteFile([s EXCEPT !.v.items = MapDel(@, id)],
                       metadataPath(s.v.items.m[id])), LAMBDA d1 :
         [s |-> DeleteFile(d1.s, valuePath(s.v.items.m[id])).s, ok |-> TRUE])

CreateItem(s, id) ==
  IF IsLocked(s) THEN [s |-> s, err |-> "vault is locked", item |-> Nil]
  ELSE IF s.v.metadataHmacSecret = Nil THEN [s |-> Panic(s), err |-> "panic", item |-> Nil]
  ELSE Bind(writeItemMetadataUnsafe(s, Item(id, NoPeer, EmptySum),
                                    s.v.metadataHmacSecret.data), LAMBDA w :
    IF w.err # NoErr THEN [s |-> w.s, err |-> "failed to create item", item |-> Nil]
    ELSE IF w.s.v.items = Nil THEN [s |-> Panic(w.s), err |-> "panic", item |-> Nil]
    ELSE [s |-> [w.s EXCEPT !.v.items = MapPut(@, id, Item(id, NoPeer, EmptySum))],
          err |-> NoErr, item |-> Item(id, NoPeer, EmptySum)])

DeleteItem(s, id) ==
  IF IsLocked(s) THEN [s |-> s, err |-> "vault is locked"]
  ELSE [s |-> deleteItemUnsafe(s, id).s, err |-> NoErr]

GetItem(s, id) ==
  IF IsLocked(s) THEN [s |-> s, err |-> "vault is locked", value |-> NoBuf]
  ELSE IF ~MapHas(s.v.items, id) THEN [s |-> s, err |-> "item not found", value |-> NoBuf]
  ELSE IF s.v.items.m[id].checksum = EmptySum THEN [s |-> s, err |-> NoErr, value |-> NoBuf]
  ELSE readItemValueUnsafe(s, s.v.items.m[id])

GetItemForPeer(s, id, peer) ==
  IF IsLocked(s) THEN [s |-> s, err |-> "vault is locked", value |-> NoBuf]
  ELSE IF ~MapHas(s.v.items, id) THEN [s |-> s, err |-> "item not found", value |-> NoBuf]
  ELSE Bind(verifyPeerUnsafe(s, s.v.items.m[id], peer), LAMBDA vp :
    IF vp.err # NoErr THEN [s |-> vp.s, err |-> vp.err, value |-> NoBuf]
    ELSE IF s.v.items.m[id].checksum = EmptySum
      THEN [s |-> vp.s, err |-> NoErr, value |-> NoBuf]
    ELSE readItemValueUnsafe(vp.s, s.v.items.m[id]))

SetItemValue(s, id, value) ==
  IF Len(value) = 0 THEN [s |-> s, err |-> "value is empty"]
  ELSE IF IsLocked(s) THEN [s |-> s, err |-> "vault is locked"]
  ELSE IF ~MapHas(s.v.items, id) THEN [s |-> s, err |-> "item not found"]
  ELSE writeItemValueUnsafe(s, s.v.items.m[id], value)

\* the loop "for i := 0; i < 3; i++" that writes the previous recipient back
RECURSIVE restoreRecipient(_, _, _, _)
restoreRecipient(s, old, secret, i) ==
  IF i >= restoreAttempts THEN [s |-> s, err |-> "io error"]
  ELSE Bind(writeRecoveryRecipient(s, old, secret), LAMBDA w :
         IF w.err = NoErr THEN [s |-> w.s, err |-> NoErr]
         ELSE restoreRecipient(w.s, old, secret, i + 1))

\* the loop that re-encrypts every item read from disk, in the order the Go
\* map of items is ranged over (order); a failure is logged and skipped
RECURSIVE reencrypt(_, _, _)
reencrypt(s, items, order) ==
  IF order = <<>> \/ Dead(s) THEN s
  ELSE IF ~MapHas(items, Head(order)) THEN reencrypt(s, items, Tail(order))
  ELSE Bind(readItemValueUnsafe(s, items.m[Head(order)]), LAMBDA rv :
         IF Dead(rv.s) \/ rv.err # NoErr THEN reencrypt(rv.s, items, Tail(order))
         ELSE reencrypt(writeItemValueUnsafe(rv.s, items.m[Head(order)], rv.value[1]).s,
                        items, Tail(order)))

\* SetRecoveryRecipient after the new recipient could not be written, had it
\* returned without writing the previous one again
SetRecoveryRecipientFailedNoRestore(s, old, secret) ==
  [s |-> s, err |-> "failed to set recovery recipient"]

\* SetRecoveryRecipient after the new recipient could not be written
SetRecoveryRecipientFailed(s, old, secret) ==
  IF old = NoRcpt THEN [s |-> s, err |-> "failed to set recovery recipient"]
  ELSE Bind(restoreRecipient(s, old, secret, 0), LAMBDA rb :
         IF rb.err # NoErr THEN [s |-> Fatal(rb.s), err |-> "fatal"]
         ELSE [s |-> rb.s, err |-> "failed to set recovery recipient"])

SetRecoveryRecipient(s, recipient, order) ==
  IF IsLocked(s) THEN [s |-> s, err |-> "vault is locked"]
  ELSE IF s.v.metadataHmacSecret = Nil THEN [s |-> Panic(s), err |-> "panic"]
  ELSE Bind(loadRecoveryRecipient(s, s.v.metadataHmacSecret.data), LAMBDA old :
    IF old.err # NoErr THEN [s |-> old.s, err |-> old.err]
    ELSE Bind(writeRecoveryRecipient(old.s, recipient, s.v.metadataHmacSecret.data),
              LAMBDA w :
      IF w.err # NoErr
        THEN SetRecoveryRecipientFailed(w.s, old.rcpt, s.v.metadataHmacSecret.data)
      ELSE Bind(readAllMetadataUnsafe(w.s, s.v.metadataHmacSecret.data), LAMBDA m :
        IF m.err # NoErr THEN [s |-> m.s, err |-> "failed to set recovery recipient"]
        ELSE Bind(reencrypt(m.s, m.items, order), LAMBDA re :
          [s |-> re, err |-> IF Dead(re) THEN re.proc ELSE NoErr]))))

\* NewVault: a new process on the same storage; the vault starts locked
NewVault(s) == [s EXCEPT !.v = NilVault, !.proc = "running"]

\* ------------------------------------------------------- the state machine
\* the machine state an operation starts from, with the backend calls in
\* faults failing
Machine(faults) ==
  [disk |-> disk, v |-> vault, proc |-> proc, build |-> build, n |-> 0, faults |-> faults]

SetMax(S) == CHOOSE x \in S : \A y \in S : y <= x

\* the sets of at most MaxFaults failing backend calls that Op meets: a call
\* can fail only if the run up to it makes it
FaultSets(Op(_)) ==
  IF backend # "faulty" THEN {{}} ELSE
  LET F[k \in 0..MaxFaults] ==
        IF k = 0 THEN {{}}
        ELSE F[k - 1] \cup
             UNION {{f \cup {i} : i \in ((IF f = {} THEN 0 ELSE SetMax(f)) + 1)
                                          .. Op(Machine(f)).s.n}
                    : f \in F[k - 1]}
  IN  F[MaxFaults]

NoLast == [op |-> "NewVault", id |-> 0, arg |-> "", err |-> NoErr, ret |-> <<>>,
           calls |-> 0, faulted |-> FALSE, wasLocked |-> TRUE, changed |-> FALSE]
NoSnap == [k |-> "none"]
NoDrone == [part |-> "none"]

\* what an administrator sees of the unlocked vault: the listing and every
\* item's value
View(s) ==
  [k |-> "view", items |-> Items(s).list,
   values |-> [id \in Ids |->
                 Bind(GetItem(s, id), LAMBDA r : [err |-> r.err, value |-> r.value])]]

\* operations of a run in which SetRecoveryRecipient meets failing writes
MaxRollbackOps == 5

\* operations of a run that looks at the snapshots' names
MaxBakOps == 5

StepBound ==
  IF backend = "faulty" THEN MaxFaultyOps
  ELSE IF backend = "rollback" THEN MaxRollbackOps
  ELSE IF backend = "bak" THEN MaxBakOps ELSE MaxOps

InitVault ==
  /\ disk = [p \in Paths |-> Absent]
  /\ vault = NilVault
  /\ proc = "running"
  /\ build \in Versions
  /\ nextId = 1
  /\ clean = TRUE
  /\ last = NoLast
  /\ snap = NoSnap
  /\ steps = 0
  /\ drone = NoDrone

Init == InitVault /\ backend = "reliable"
InitFaulty == InitVault /\ backend = "faulty"

\* an operation op(id, arg) returned r, having started with the faults F
Returns(op, id, arg, r, ret, F) ==
  /\ steps < StepBound
  /\ steps' = steps + 1
  /\ disk' = r.s.disk
  /\ vault' = r.s.v
  /\ proc' = r.s.proc
  /\ build' = build
  /\ backend' = backend
  /\ drone' = drone
  /\ clean' = (clean /\ F = {} /\ ~Dead(r.s))
  /\ last' = [op |-> op, id |-> id, arg |-> arg, err |-> r.err, ret |-> ret,
              calls |-> r.s.n, faulted |-> F # {}, wasLocked |-> vault.identityKey = Nil,
              changed |-> (r.s.disk # disk \/ r.s.v # vault)]
  /\ snap' = IF op = "Lock" /\ r.err = NoErr THEN View(Machine({}))
             ELSE IF op \in {"Unlock", "VerifyPassphrase"} THEN snap
             ELSE NoSnap

\* Passphrases, recipients, peers and values are only ever compared for
\* equality, so the first one of each kind that the vault (or the item) meets
\* is given the first name: runs that differ by a renaming are explored once.
FirstPassphrase == "correct horse"
FirstRecipient == "age1r1"
FirstPeer == "10.0.0.1"
FirstValue == <<104>>

PassphraseInputs ==
  IF disk[Path(".identity", 0)] = Absent THEN {FirstPassphrase} ELSE Passphrases

RecipientInputs ==
  IF \E q \in Paths :
       \/ (q.f = ".recovery" /\ disk[q] = Text(FirstRecipient))
       \/ (disk[q].k = "age" /\ RecoveryRcpt(FirstRecipient) \in disk[q].rcpts)
    THEN Recipients ELSE {FirstRecipient}

PeerInputs(id) ==
  IF \/ (MapHas(vault.items, id) /\ vault.items.m[id].peer # NoPeer)
     \/ (disk[Path(".json", id)].k = "json" /\ disk[Path(".json", id)].item.peer # NoPeer)
    THEN Peers ELSE {FirstPeer}

ValueInputs(id) ==
  IF \/ (MapHas(vault.items, id) /\ vault.items.m[id].checksum # EmptySum)
     \/ (disk[Path(".json", id)].k = "json"
           /\ disk[Path(".json", id)].item.checksum # EmptySum)
     \/ disk[Path(".age", id)] # Absent
    THEN Values ELSE {<<>>, FirstValue}

DoUnlock ==
  /\ proc = "running"
  /\ \E p \in PassphraseInputs : \E F \in FaultSets(LAMBDA s : Unlock(s, p)) :
       Returns("Unlock", 0, p, Unlock(Machine(F), p), <<>>, F)
  /\ UNCHANGED nextId

DoVerifyPassphrase ==
  /\ proc = "running"
  /\ \E p \in PassphraseInputs : \E F \in FaultSets(LAMBDA s : VerifyPassphrase(s, p)) :
       Returns("VerifyPassphrase", 0, p, VerifyPassphrase(Machine(F), p), <<>>, F)
  /\ UNCHANGED nextId

DoLock ==
  /\ proc = "running"
  /\ Returns("Lock", 0, "", Lock(Machine({})), <<>>, {})
  /\ UNCHANGED nextId

DoItems ==
  /\ proc = "running"
  /\ Bind(Items(Machine({})), LAMBDA r : Returns("Items", 0, "", r, r.list, {}))
  /\ UNCHANGED nextId

\* uuid.New() never repeats an id; an id that left no trace is drawn again
DoCreateItem ==
  /\ proc = "running"
  /\ nextId <= MaxItems
  /\ \E F \in FaultSets(LAMBDA s : CreateItem(s, nextId)) :
       Bind(CreateItem(Machine(F), nextId), LAMBDA r :
         /\ Returns("CreateItem", nextId, "", r, r.item, F)
         /\ nextId' = IF r.s.disk = disk /\ r.s.v = vault THEN nextId ELSE nextId + 1)

DoSetItemValue ==
  /\ proc = "running"
  /\ \E id \in Ids : \E value \in ValueInputs(id) :
       \E F \in FaultSets(LAMBDA s : SetItemValue(s, id, value)) :
         Returns("SetItemValue", id, value, SetItemValue(Machine(F), id, value), <<>>, F)
  /\ UNCHANGED nextId

DoGetItem ==
  /\ proc = "running"
  /\ \E id \in Ids : \E F \in FaultSets(LAMBDA s : GetItem(s, id)) :
       Bind(GetItem(Machine(F), id), LAMBDA r : Returns("GetItem", id, "", r, r.value, F))
  /\ UNCHANGED nextId

DoGetItemForPeer ==
  /\ proc = "running"
  /\ \E id \in Ids : \E peer \in PeerInputs(id) :
       \E F \in FaultSets(LAMBDA s : GetItemForPeer(s, id, peer)) :
         Bind(GetItemForPeer(Machine(F), id, peer), LAMBDA r :
           Returns("GetItemForPeer", id, peer, r, r.value, F))
  /\ UNCHANGED nextId

DoDeleteItem ==
  /\ proc = "running"
  /\ \E id \in Ids : \E F \in FaultSets(LAMBDA s : DeleteItem(s, id)) :
       Returns("DeleteItem", id, "", DeleteItem(Machine(F), id), <<>>, F)
  /\ UNCHANGED nextId

Orders == {o \in [1..MaxItems -> Ids] : \A i, j \in 1..MaxItems : o[i] = o[j] => i = j}

DoSetRecoveryRecipient ==
  /\ proc = "running"
  /\ \E rcpt \in RecipientInputs, order \in Orders :
       \E F \in FaultSets(LAMBDA s : SetRecoveryRecipient(s, rcpt, order)) :
         Returns("SetRecoveryRecipient", 0, rcpt,
                 SetRecoveryRecipient(Machine(F), rcpt, order), <<>>, F)
  /\ UNCHANGED nextId

\* the process is started again after it ended
Restart ==
  /\ proc # "running"
  /\ steps < StepBound
  /\ steps' = steps + 1
  /\ vault' = NilVault
  /\ proc' = "running"
  /\ last' = NoLast
  /\ snap' = NoSnap
  /\ UNCHANGED <<disk, build, nextId, clean, backend, drone>>

\* a byte of <uuid>.age is flipped on disk
CorruptValue ==
  /\ steps < StepBound
  /\ steps' = steps + 1
  /\ \E id \in Ids :
       /\ disk[Path(".age", id)] \notin {Absent, Garbage}
       /\ disk' = [disk EXCEPT ![Path(".age", id)] = Garbage]
       /\ last' = [NoLast EXCEPT !.op = "CorruptValue", !.id = id, !.changed = TRUE,
                                 !.wasLocked = (vault.identityKey = Nil)]
  /\ clean' = FALSE
  /\ snap' = NoSnap
  /\ UNCHANGED <<vault, proc, build, nextId, backend, drone>>

\* a byte of <uuid>.json is flipped on disk
CorruptMetadata ==
  /\ steps < StepBound
  /\ steps' = steps + 1
  /\ \E id \in Ids :
       /\ disk[Path(".json", id)] \notin {Absent, Garbage}
       /\ disk' = [disk EXCEPT ![Path(".json", id)] = Garbage]
       /\ last' = [NoLast EXCEPT !.op = "CorruptMetadata", !.id = id, !.changed = TRUE,
                                 !.wasLocked = (vault.identityKey = Nil)]
  /\ clean' = FALSE
  /\ snap' = NoSnap
  /\ UNCHANGED <<vault, proc, build, nextId, backend, drone>>

Next ==
  \/ DoUnlock
  \/ DoVerifyPassphrase
  \/ DoLock
  \/ DoItems
  \/ DoCreateItem
  \/ DoSetItemValue
  \/ DoGetItem
  \/ DoGetItemForPeer
  \/ DoDeleteItem
  \/ DoSetRecoveryRecipient
  \/ Restart
  \/ CorruptValue
  \/ CorruptMetadata

Spec == Init /\ [][Next]_vars
SpecFaulty == InitFaulty /\ [][Next]_vars

\* ------------------------------------------ a party with access to the disk
\* The party of docs/security.md ("specifying malicious recovery key"): it can
\* write and delete files of the storage path but holds neither the
\* passphrase nor the metadata secret, so the only .recovery.sum contents it
\* can produce are ones that do not verify; it can also remove files.
AttackerRecipient == "age1evil"

InitHostile == InitVault /\ backend = "hostile"

\* .recovery is replaced by the party's own recipient; .recovery.sum is left
\* as it is or removed
TamperRecovery ==
  /\ steps < StepBound
  /\ steps' = steps + 1
  /\ \E recoverySum \in {disk[Path(".recovery.sum", 0)], Absent} :
       /\ disk' = [disk EXCEPT ![Path(".recovery", 0)] = Text(AttackerRecipient),
                               ![Path(".recovery.sum", 0)] = recoverySum]
       /\ disk' # disk
  /\ last' = [NoLast EXCEPT !.op = "TamperRecovery", !.changed = TRUE,
                            !.wasLocked = (vault.identityKey = Nil)]
  /\ clean' = FALSE
  /\ snap' = NoSnap
  /\ UNCHANGED <<vault, proc, build, nextId, backend, drone>>

\* .version is removed
TamperVersion ==
  /\ steps < StepBound
  /\ steps' = steps + 1
  /\ disk[Path(".version", 0)] # Absent
  /\ disk' = [disk EXCEPT ![Path(".version", 0)] = Absent]
  /\ last' = [NoLast EXCEPT !.op = "TamperVersion", !.changed = TRUE,
                            !.wasLocked = (vault.identityKey = Nil)]
  /\ clean' = FALSE
  /\ snap' = NoSnap
  /\ UNCHANGED <<vault, proc, build, nextId, backend, drone>>

NextHostile ==
  \/ Next
  \/ TamperRecovery
  \/ TamperVersion

SpecHostile == InitHostile /\ [][NextHostile]_vars

\* =================================================================== drone
\* The backup drone (cmd/drone): discovery of labelled containers
\* (container/docker), the plan of a container project and its run (worker).
\* Strings are compared only: a label value stands for itself after
\* strings.TrimSpace, "" for a blank one.  Lists whose order takes part in no
\* decision (Dependencies, BackupVolumes, AllVolumes, Exec.Paths) are sets.

\* containers of one project
MaxContainers == 3
\* io.v47.borgd.service.dependencies.* labels of one container
MaxDependencies == 1

BackupModeDefault == 1
BackupModeDependentOffline == 2
BackupModeOffline == 3
\* the BackupMode that BackupModeFromString returns with its error
NoBackupMode == 0
ContainerEngineDocker == "docker"

ServiceNames == <<"db", "redis", "server", "tika", "gotenberg">>
Services == {ServiceNames[i] : i \in 1..MaxContainers}
ContainerIDs == 1..MaxContainers

\* the mounts of every container of the model, and an in-container path that
\* is no mount
MountData == "/data"
PathDump == "/dump"
UpperDir == "/var/lib/docker/overlay2/c/diff"

\* strings.HasPrefix over the paths of the model, none of which is a proper
\* prefix of another
HasPrefix(s, prefix) == s = prefix

NoContainer == [k |-> "none"]
NoJob == [k |-> "none"]

BackupModeFromString(s) ==
  CASE s = "default" -> [mode |-> BackupModeDefault, err |-> NoErr]
    [] s = "dependent-offline" -> [mode |-> BackupModeDependentOffline, err |-> NoErr]
    [] s = "offline" -> [mode |-> BackupModeOffline, err |-> NoErr]
    [] OTHER -> [mode |-> NoBackupMode, err |-> "unrecognized backup mode"]

\* utils.SplitCommandLine of a label value without quotes: "" for no word
SplitCommandLine(value) == value

\* the exec read from the labels, before it is checked
ExecOfLabels(labels) ==
  [k |-> "exec", Command |-> SplitCommandLine(labels.exec),
   Stdout |-> labels.stdout # "", Paths |-> labels.paths]

\* the ContainerBackup read from the labels, before it is checked
BackupOfLabels(inspect) ==
  [k |-> "container",
   ID |-> inspect.ID,
   ServiceName |-> inspect.Labels.serviceName,
   Mode |-> IF inspect.Labels.mode = "" THEN BackupModeDefault
            ELSE BackupModeFromString(inspect.Labels.mode).mode,
   UpperDirPath |-> UpperDir,
   Exec |-> IF ExecOfLabels(inspect.Labels).Command # ""
            THEN ExecOfLabels(inspect.Labels) ELSE Nil,
   BackupVolumes |-> inspect.Labels.volumes,
   AllVolumes |-> inspect.Mounts,
   Dependencies |-> inspect.Labels.dependencies]

\* the checks without the one on exec with the offline mode
mapInspectToContainerBackupChecksNoOffline(result) ==
  IF result.Exec # Nil /\ result.Exec.Paths = {} /\ ~result.Exec.Stdout
    THEN [backup |-> NoContainer, err |-> "exec must have either paths or stdout"]
  ELSE IF result.Exec # Nil /\ result.Exec.Paths # {} /\ result.Exec.Stdout
    THEN [backup |-> NoContainer, err |-> "exec must not have both paths and stdout"]
  ELSE IF result.Exec # Nil /\ result.BackupVolumes # {}
    THEN [backup |-> NoContainer, err |-> "container must not have both exec and volumes"]
  ELSE IF result.ServiceName = ""
    THEN [backup |-> NoContainer, err |-> "container must have a service name"]
  ELSE [backup |-> result, err |-> NoErr]

\* mapInspectToContainerBackup: the label loop returns at the first label it
\* cannot read (which one, when there are several, depends on the map's
\* iteration order and changes the message only), then come the checks
mapInspectToContainerBackupChecks(result) ==
  IF result.Exec # Nil /\ result.Exec.Paths = {} /\ ~result.Exec.Stdout
    THEN [backup |-> NoContainer, err |-> "exec must have either paths or stdout"]
  ELSE IF result.Exec # Nil /\ result.Exec.Paths # {} /\ result.Exec.Stdout
    THEN [backup |-> NoContainer, err |-> "exec must not have both paths and stdout"]
  ELSE IF result.Exec # Nil /\ result.BackupVolumes # {}
    THEN [backup |-> NoContainer, err |-> "container must not have both exec and volumes"]
  ELSE IF result.ServiceName = ""
    THEN [backup |-> NoContainer, err |-> "container must have a service name"]
  ELSE IF result.Mode = BackupModeOffline /\ result.Exec # Nil
    THEN [backup |-> NoContainer, err |-> "container cannot have exec with offline backup mode"]
  ELSE [backup |-> result, err |-> NoErr]

mapInspectToContainerBackup(inspect) ==
  IF inspect.Labels.mode # "" /\ BackupModeFromString(inspect.Labels.mode).err # NoErr
    THEN [backup |-> NoContainer, err |-> BackupModeFromString(inspect.Labels.mode).err]
  ELSE IF \E value \in inspect.Labels.volumes : value \notin inspect.Mounts
    THEN [backup |-> NoContainer, err |-> "volume for destination not found"]
  ELSE mapInspectToContainerBackupChecks(BackupOfLabels(inspect))

\* the label values of the model
ModeLabels == {"", "default", "dependent-offline", "offline", "online"}
ExecLabels == {"", "pg_dumpall"}
StdoutLabels == {"", "true"}
PathLabels == {{}, {MountData}, {PathDump}}
VolumeLabels == {{}, {MountData}, {PathDump}}
DependencyLabels == {d \in SUBSET Services : Cardinality(d) <= MaxDependencies}
ProjectLabel == "paperless"
WhenLabel == "0 1 * * *"

\* what ContainerInspect returns for container id with the service name label
\* name and dependency labels out of dependencyLabels, enabled for a project
Inspects(id, name, dependencyLabels) ==
  {[ID |-> id,
    Mounts |-> {MountData},
    Labels |-> [enabled |-> "true", projectName |-> ProjectLabel, when |-> WhenLabel,
                serviceName |-> name, mode |-> mode, exec |-> exec, stdout |-> stdout,
                paths |-> paths, volumes |-> volumes, dependencies |-> dependencies]] :
     mode \in ModeLabels, exec \in ExecLabels, stdout \in StdoutLabels,
     paths \in PathLabels, volumes \in VolumeLabels, dependencies \in dependencyLabels}

\* ----------------------------------------------------------- the plan
\* containerPlan.Less
Less(p, i, j) ==
  p[j].ServiceName \in p[i].Dependencies \/ p[i].Mode < p[j].Mode

Swap(p, i, j) == [p EXCEPT ![i] = p[j], ![j] = p[i]]

\* sort.Sort(plan): for up to 12 elements pdqsort is insertionSort(data, a, b),
\*   for i := a + 1; i < b; i++ {
\*     for j := i; j > a && data.Less(j, j-1); j-- { data.Swap(j, j-1) } }
RECURSIVE insertionSortInner(_, _)
insertionSortInner(p, j) ==
  IF j > 1 /\ Less(p, j, j - 1) THEN insertionSortInner(Swap(p, j, j - 1), j - 1) ELSE p

RECURSIVE insertionSortOuter(_, _)
insertionSortOuter(p, i) ==
  IF i <= Len(p) THEN insertionSortOuter(insertionSortInner(p, i), i + 1) ELSE p

Sort(p) == IF Len(p) <= 1 THEN p ELSE insertionSortOuter(p, 2)

\* the service names of a project's containers, and the orders in which a
\* range over the map may visit them
Keys(project) == {name \in Services : project.Containers[name] # NoContainer}
Iterations(S) ==
  {o \in [1..Cardinality(S) -> S] : \A i, j \in 1..Cardinality(S) : o[i] = o[j] => i = j}

findSourceForInContainerPath(ctnr, cPath) ==
  \/ \E vol \in ctnr.AllVolumes : HasPrefix(vol, cPath)
  \/ ctnr.UpperDirPath # "" /\ HasPrefix(ctnr.UpperDirPath, cPath)

\* the loop of newContainerProjectBackupJob over project.Containers, from the
\* i-th container of the iteration on; ctnr.Exec.Stdout of a container without
\* exec dereferences nil
RECURSIVE checkContainers(_, _, _)
checkContainers(project, order, i) ==
  IF i > Len(order) THEN [err |-> NoErr, panic |-> FALSE]
  ELSE IF project.Containers[order[i]].Exec = Nil
    THEN [err |-> NoErr, panic |-> TRUE]
  ELSE IF /\ ~project.Containers[order[i]].Exec.Stdout
          /\ \E cPath \in project.Containers[order[i]].Exec.Paths :
               ~findSourceForInContainerPath(project.Containers[order[i]], cPath)
    THEN [err |-> "no source for in-container path", panic |-> FALSE]
  ELSE IF \E dep \in project.Containers[order[i]].Dependencies : dep \notin Keys(project)
    THEN [err |-> "dependency not found", panic |-> FALSE]
  ELSE checkContainers(project, order, i + 1)

\* Worker.newContainerProjectBackupJob; values is the order of
\* maps.Values(project.Containers), order that of the range loop
newContainerProjectBackupJob(project, values, order) ==
  IF Keys(project) = {} THEN [job |-> NoJob, err |-> "nothing to do", panic |-> FALSE]
  ELSE Bind(Sort([i \in 1..Len(values) |-> project.Containers[values[i]]]), LAMBDA plan :
       Bind(checkContainers(project, order, 1), LAMBDA checked :
         IF checked.panic \/ checked.err # NoErr
           THEN [job |-> NoJob, err |-> checked.err, panic |-> checked.panic]
         ELSE IF project.Engine = ContainerEngineDocker
           THEN [job |-> [k |-> "job", project |-> project, plan |-> plan,
                          engine |-> ContainerEngineDocker],
                 err |-> NoErr, panic |-> FALSE]
         ELSE [job |-> NoJob, err |-> "unknown container engine", panic |-> FALSE]))

\* Worker.scheduleDockerBackup: the job scheduled for the project after it
scheduleDockerBackup(project, values, order) ==
  IF Keys(project) = {} THEN [job |-> NoJob, err |-> NoErr, panic |-> FALSE]
  ELSE newContainerProjectBackupJob(project, values, order)

\* the containers that discovery yields for container i under the i-th service
\* name
MappedContainers ==
  [i \in ContainerIDs |->
     {mapInspectToContainerBackup(inspect).backup : inspect \in
        {x \in Inspects(i, ServiceNames[i], DependencyLabels) :
           mapInspectToContainerBackup(x).err = NoErr}}]

\* the maps of project.Containers over the first i - 1 service names extended
\* to all of them; a service has a discovered container or none
RECURSIVE ContainerMaps(_, _)
ContainerMaps(S, i) ==
  IF i > MaxContainers THEN S
  ELSE ContainerMaps({c @@ (ServiceNames[i] :> b) :
                        c \in S, b \in MappedContainers[i] \cup {NoContainer}}, i + 1)

\* the projects of up to MaxContainers discovered containers
Projects ==
  {[Engine |-> ContainerEngineDocker, ProjectName |-> ProjectLabel, Containers |-> c] :
     c \in ContainerMaps({<<>>}, 1)}

\* the vault takes no part in the drone's runs
VaultIdle ==
  /\ disk = [p \in Paths |-> Absent]
  /\ vault = NilVault
  /\ proc = "running"
  /\ build = VersionDevel
  /\ nextId = 1
  /\ clean = TRUE
  /\ last = NoLast
  /\ snap = NoSnap
  /\ steps = 0
  /\ backend = "reliable"

vaultVars == <<disk, vault, proc, build, nextId, clean, last, snap, steps, backend>>

\* a worker that is handed a discovered project
InitPlan ==
  /\ VaultIdle
  /\ \E project \in Projects :
       drone = [part |-> "worker", project |-> project, job |-> NoJob, err |-> NoErr,
                state |-> "started"]

\* Worker.scheduleDockerBackup(cbp) for the project
ScheduleDockerBackup ==
  /\ drone.part = "worker"
  /\ drone.state # "panic"
  /\ \E values \in Iterations(Keys(drone.project)), order \in Iterations(Keys(drone.project)) :
       Bind(scheduleDockerBackup(drone.project, values, order), LAMBDA r :
         drone' = [drone EXCEPT !.job = r.job, !.err = r.err,
                                !.state = IF r.panic THEN "panic" ELSE "scheduled"])
  /\ UNCHANGED vaultVars

NextPlan ==
  \/ ScheduleDockerBackup

SpecPlan == InitPlan /\ [][NextPlan]_vars

\* ----------------------------------------------------------- discovery
\* Docker events handled in a run
MaxEvents == 2

NoProject == [k |-> "none"]
NoInspect == [k |-> "none"]
ProjectNames == {ProjectLabel}

isBorgdEnabled(inspect) == inspect.Labels.enabled = "true"

\* cron.ParseStandard over the schedules of the model
ParsesAsSchedule(when) == when = WhenLabel

mapInspectToProject(inspect) ==
  IF inspect.Labels.projectName = ""
    THEN [project |-> NoProject, err |-> "project name not found"]
  ELSE IF inspect.Labels.when = ""
    THEN [project |-> NoProject, err |-> "project schedule not found"]
  ELSE IF ~ParsesAsSchedule(inspect.Labels.when)
    THEN [project |-> NoProject, err |-> "failed to parse project schedule"]
  ELSE [project |-> [Engine |-> ContainerEngineDocker,
                     ProjectName |-> inspect.Labels.projectName,
                     Containers |-> [name \in Services |-> NoContainer]],
        err |-> NoErr]

findOrCreateProject(projects, inspect) ==
  Bind(mapInspectToProject(inspect), LAMBDA new :
    IF new.err # NoErr THEN new
    ELSE IF projects[new.project.ProjectName] = NoProject THEN new
    ELSE [project |-> projects[new.project.ProjectName], err |-> NoErr])

\* Client.handleContainerUpdated; inspected is what ContainerInspect returned
handleContainerUpdated(cache, inspected) ==
  IF inspected.err # NoErr
    THEN [cache |-> cache, project |-> NoProject, err |-> "failed to inspect container"]
  ELSE IF ~isBorgdEnabled(inspected.inspect)
    THEN [cache |-> cache, project |-> NoProject, err |-> NoErr]
  ELSE Bind(findOrCreateProject(cache, inspected.inspect), LAMBDA found :
    IF found.err # NoErr THEN [cache |-> cache, project |-> NoProject, err |-> NoErr]
    ELSE Bind(mapInspectToContainerBackup(inspected.inspect), LAMBDA mapped :
      IF mapped.err # NoErr THEN [cache |-> cache, project |-> NoProject, err |-> NoErr]
      ELSE Bind([found.project EXCEPT !.Containers[mapped.backup.ServiceName] = mapped.backup],
                LAMBDA project :
                  [cache |-> [cache EXCEPT ![project.ProjectName] = project],
                   project |-> project, err |-> NoErr])))

\* the entries of the cache that hold container containerID
EntriesOf(cache, containerID) ==
  {e \in ProjectNames \X Services :
     /\ cache[e[1]] # NoProject
     /\ cache[e[1]].Containers[e[2]] # NoContainer
     /\ cache[e[1]].Containers[e[2]].ID = containerID}

\* Client.handleContainerDestroyed; entry is the one its loops stop at
handleContainerDestroyed(cache, containerID, entry) ==
  IF EntriesOf(cache, containerID) = {} THEN [cache |-> cache, project |-> NoProject]
  ELSE Bind([cache[entry[1]] EXCEPT !.Containers[entry[2]] = NoContainer], LAMBDA project :
         [cache |-> [cache EXCEPT ![entry[1]] = IF Keys(project) = {} THEN NoProject
                                                ELSE project],
          project |-> project])

\* the checks of mapInspectToContainerBackup as properties of a ContainerBackup
DiscoveryInvariants(ctnr) ==
  /\ ctnr.ServiceName # ""
  /\ ~(ctnr.Exec # Nil /\ ctnr.BackupVolumes # {})
  /\ ctnr.Exec # Nil => ctnr.Mode # BackupModeOffline
  /\ ctnr.Exec # Nil => (ctnr.Exec.Stdout <=> ctnr.Exec.Paths = {})

\* an inspection of an enabled container of a valid project with a readable
\* mode whose labels break one of them
BreaksInvariants(inspected) ==
  /\ inspected.err = NoErr
  /\ isBorgdEnabled(inspected.inspect)
  /\ mapInspectToProject(inspected.inspect).err = NoErr
  /\ BackupModeFromString(inspected.inspect.Labels.mode).err = NoErr
  /\ ~DiscoveryInvariants(BackupOfLabels(inspected.inspect))

\* what ContainerInspect may return for an event's container; the dependency
\* labels, which discovery copies unread, are left out
DefaultLabels(name) ==
  [enabled |-> "true", projectName |-> ProjectLabel, when |-> WhenLabel,
   serviceName |-> name, mode |-> "", exec |-> "", stdout |-> "",
   paths |-> {}, volumes |-> {}, dependencies |-> {}]

Inspected(id) ==
  {[err |-> "No such container", inspect |-> NoInspect]}
  \cup {[err |-> NoErr,
         inspect |-> [ID |-> id, Mounts |-> {MountData},
                      Labels |-> [DefaultLabels(ServiceNames[id]) EXCEPT
                                    !.enabled = l[1], !.projectName = l[2], !.when = l[3]]]] :
          l \in {<<"false", ProjectLabel, WhenLabel>>, <<"true", "", WhenLabel>>,
                 <<"true", ProjectLabel, "">>, <<"true", ProjectLabel, "@sometimes">>}}
  \cup {[err |-> NoErr, inspect |-> inspect] :
          inspect \in UNION {Inspects(id, name, {{}}) : name \in Services \cup {""}}}

InitDiscovery ==
  /\ VaultIdle
  /\ drone = [part |-> "docker", cache |-> [name \in ProjectNames |-> NoProject],
              project |-> NoProject, err |-> NoErr, events |-> 0,
              event |-> [op |-> "NewClient", id |-> 0, mode |-> "", breaks |-> FALSE],
              changed |-> FALSE]

\* Client.handleEvent for a create or update event of container id
HandleContainerUpdated ==
  /\ drone.part = "docker"
  /\ drone.events < MaxEvents
  /\ \E id \in ContainerIDs : \E inspected \in Inspected(id) :
       Bind(handleContainerUpdated(drone.cache, inspected), LAMBDA r :
         drone' = [drone EXCEPT !.cache = r.cache, !.project = r.project, !.err = r.err,
                                !.events = drone.events + 1,
                                !.event = [op |-> "update", id |-> id,
                                           mode |-> IF inspected.err = NoErr
                                                    THEN inspected.inspect.Labels.mode ELSE "",
                                           breaks |-> BreaksInvariants(inspected)],
                                !.changed = r.cache # drone.cache])
  /\ UNCHANGED vaultVars

\* Client.handleEvent for a destroy event of container id
HandleContainerDestroyed ==
  /\ drone.part = "docker"
  /\ drone.events < MaxEvents
  /\ \E id \in ContainerIDs :
       \E entry \in IF EntriesOf(drone.cache, id) = {} THEN {<<ProjectLabel, ServiceNames[1]>>}
                    ELSE EntriesOf(drone.cache, id) :
         Bind(handleContainerDestroyed(drone.cache, id, entry), LAMBDA r :
           drone' = [drone EXCEPT !.cache = r.cache, !.project = r.project, !.err = NoErr,
                                  !.events = drone.events + 1,
                                  !.event = [op |-> "destroy", id |-> id, mode |-> "",
                                             breaks |-> FALSE],
                                  !.changed = r.cache # drone.cache])
  /\ UNCHANGED vaultVars

NextDiscovery ==
  \/ HandleContainerUpdated
  \/ HandleContainerDestroyed

SpecDiscovery == InitDiscovery /\ [][NextDiscovery]_vars

\* ------------------------------------------------------ static backup job
\* config.BackupConfig: commands are lists of words, Stdout is a *bool
StaticCommands(word) == {<<>>, <<word>>}
ExecBackupConfigs ==
  {[k |-> "exec", Command |-> command, Stdout |-> stdout, Paths |-> paths] :
     command \in StaticCommands("pg_dumpall"), stdout \in {"nil", "false", "true"},
     paths \in {{}, {MountData}}}
PathsBackupConfigs == {[k |-> "paths", Paths |-> paths] : paths \in {{}, {MountData}}}
BackupConfigs ==
  {[Name |-> "static", Exec |-> exec, Paths |-> paths, PreCommand |-> pre,
    PostCommand |-> post, FinallyCommand |-> finally] :
     exec \in ExecBackupConfigs \cup {Nil}, paths \in PathsBackupConfigs \cup {Nil},
     pre \in StaticCommands("pre"), post \in StaticCommands("post"),
     finally \in StaticCommands("finally")}

\* what a subprocess or the archive tool returns
CallOutcomes == {NoErr, "exit status 1"}

\* backupPaths; archived is the result of borgClient.CreateWithPaths
backupPaths(paths, archived) ==
  IF paths = {} THEN [err |-> "no paths specified", calls |-> <<>>]
  ELSE [err |-> archived, calls |-> <<"archive">>]

\* staticBackupJob.runExecBackup; ran is the result of starting (stdout) or
\* running the command, archived that of the archive tool.  A command that
\* exits non-zero after its output was archived is logged only.
runExecBackup(backup, ran, archived) ==
  IF backup.Exec.Command = <<>> THEN [err |-> "no exec command specified", calls |-> <<>>]
  ELSE IF backup.Exec.Stdout = "true"
    THEN IF ran # NoErr THEN [err |-> ran, calls |-> <<"exec">>]
         ELSE [err |-> archived, calls |-> <<"exec", "archive">>]
  ELSE IF backup.Exec.Paths = {} THEN [err |-> "no paths configured", calls |-> <<>>]
  ELSE IF ran # NoErr THEN [err |-> ran, calls |-> <<"exec">>]
  ELSE Bind(backupPaths(backup.Exec.Paths, archived), LAMBDA r :
         [err |-> r.err, calls |-> <<"exec">> \o r.calls])

\* staticBackupJob.runPathsBackup
runPathsBackup(backup, archived) ==
  IF backup.Paths = Nil THEN [err |-> "no paths configured", calls |-> <<>>]
  ELSE backupPaths(backup.Paths.Paths, archived)

\* a scheduled static backup job; log lists the commands it ran
InitStatic ==
  /\ VaultIdle
  /\ \E backup \in BackupConfigs :
       drone = [part |-> "static", backup |-> backup, pc |-> "scheduled", err |-> NoErr,
                log |-> <<>>, pre |-> "skipped", body |-> "skipped"]

\* the scheduler starts staticBackupJob.Run
StaticRun ==
  /\ drone.part = "static"
  /\ drone.pc = "scheduled"
  /\ drone' = [drone EXCEPT !.pc = "pre"]
  /\ UNCHANGED vaultVars

\* Run: the pre-command
StaticPreCommand ==
  /\ drone.part = "static"
  /\ drone.pc = "pre"
  /\ IF Len(drone.backup.PreCommand) > 0
       THEN \E err \in CallOutcomes :
              drone' = [drone EXCEPT !.pc = "body", !.err = err, !.pre = err,
                                     !.log = Append(drone.log, "pre-command")]
       ELSE drone' = [drone EXCEPT !.pc = "body"]
  /\ UNCHANGED vaultVars

\* Run with a body that does not look at the pre-command's error
StaticBodyAlways ==
  /\ drone.part = "static"
  /\ drone.pc = "body"
  /\ \E ran \in CallOutcomes, archived \in CallOutcomes :
       Bind(IF drone.backup.Exec # Nil THEN runExecBackup(drone.backup, ran, archived)
            ELSE runPathsBackup(drone.backup, archived), LAMBDA r :
         drone' = [drone EXCEPT !.pc = "post", !.err = r.err, !.body = r.err,
                                !.log = drone.log \o r.calls])
  /\ UNCHANGED vaultVars

\* Run: the body, when err == nil
StaticBody ==
  /\ drone.part = "static"
  /\ drone.pc = "body"
  /\ IF drone.err = NoErr
       THEN \E ran \in CallOutcomes, archived \in CallOutcomes :
              Bind(IF drone.backup.Exec # Nil THEN runExecBackup(drone.backup, ran, archived)
                   ELSE runPathsBackup(drone.backup, archived), LAMBDA r :
                drone' = [drone EXCEPT !.pc = "post", !.err = r.err, !.body = r.err,
                                       !.log = drone.log \o r.calls])
       ELSE drone' = [drone EXCEPT !.pc = "post"]
  /\ UNCHANGED vaultVars

\* Run: the warning, or the post-command (its error is dropped)
StaticPostCommand ==
  /\ drone.part = "static"
  /\ drone.pc = "post"
  /\ IF drone.err = NoErr /\ Len(drone.backup.PostCommand) > 0
       THEN drone' = [drone EXCEPT !.pc = "finally", !.log = Append(drone.log, "post-command")]
       ELSE drone' = [drone EXCEPT !.pc = "finally"]
  /\ UNCHANGED vaultVars

\* Run: the finally-command (its error is dropped), and the return
StaticFinallyCommand ==
  /\ drone.part = "static"
  /\ drone.pc = "finally"
  /\ IF Len(drone.backup.FinallyCommand) > 0
       THEN drone' = [drone EXCEPT !.pc = "done", !.log = Append(drone.log, "finally-command")]
       ELSE drone' = [drone EXCEPT !.pc = "done"]
  /\ UNCHANGED vaultVars

NextStatic ==
  \/ StaticRun
  \/ StaticPreCommand
  \/ StaticBody
  \/ StaticPostCommand
  \/ StaticFinallyCommand

SpecStatic == InitStatic /\ [][NextStatic]_vars

\* the positions of a command in the log
Positions(log, command) == {i \in 1..Len(log) : log[i] = command}

\* ------------------------------------------- the run of a project's job
\* ContainerBackup.NeedsBackup
NeedsBackup(b) == b.Exec # Nil \/ b.BackupVolumes # {}

\* what an engine call or the backup of one container ends with: the first
\* engine call fails, a later call or the archive tool fails, or none does
BackupOutcomes == {"engine failed", "backup failed", "archived"}

\* one iteration of the plan loop of Run: runOnlineBackup,
\* runDependentOfflineBackup or runOfflineBackup; every failure is logged and
\* the iteration returns
runContainerBackup(containers, backupCtnr, outcome) ==
  IF ~NeedsBackup(backupCtnr) THEN "skipped"
  ELSE IF backupCtnr.Mode \in {BackupModeDefault, BackupModeDependentOffline, BackupModeOffline}
    THEN outcome
  ELSE "unknown backup mode"

\* the plan loop of Run from the i-th container on: the services archived
RECURSIVE runPlan(_, _, _, _)
runPlan(containers, plan, outcomes, i) ==
  IF i > Len(plan) THEN {}
  ELSE (IF runContainerBackup(containers, plan[i], outcomes[i]) = "archived"
          THEN {plan[i].ServiceName} ELSE {})
       \cup runPlan(containers, plan, outcomes, i + 1)

\* the projects whose containers all have an exec that writes to stdout and
\* no dependencies
StdoutProjects ==
  {p \in Projects : \A name \in Keys(p) : /\ p.Containers[name].Exec # Nil
                                            /\ p.Containers[name].Exec.Stdout
                                            /\ p.Containers[name].Dependencies = {}}

\* a create event for container id: a container with an exec, no dependencies
RunInspected(id) ==
  {[err |-> NoErr,
    inspect |-> [ID |-> id, Mounts |-> {MountData},
                 Labels |-> [DefaultLabels(ServiceNames[id]) EXCEPT
                               !.exec = "pg_dumpall", !.stdout = "true"]]]}

\* A job that Worker.scheduleDockerBackup scheduled for a discovered project.
\* The project was handed on by value: job.project.Containers and the entry
\* of Client.cache are one map (shared) for as long as the cache keeps the
\* project; containers is that map as the job reads it.
InitRun ==
  /\ VaultIdle
  /\ \E project \in StdoutProjects :
       \E values \in Iterations(Keys(project)), order \in Iterations(Keys(project)) :
         /\ newContainerProjectBackupJob(project, values, order).job # NoJob
         /\ drone = [part |-> "job",
                     plan |-> newContainerProjectBackupJob(project, values, order).job.plan,
                     cache |-> [name \in ProjectNames |-> project],
                     shared |-> TRUE,
                     containers |-> project.Containers,
                     pc |-> "scheduled", archived |-> {}, wg |-> 0, spawned |-> {},
                     pending |-> {}, ensured |-> [id \in ContainerIDs |-> 0],
                     state |-> "running", events |-> 0]

\* Run: the plan loop
RunPlanLoop ==
  /\ drone.part = "job"
  /\ drone.state = "running"
  /\ drone.pc = "scheduled"
  /\ \E outcomes \in [1..Len(drone.plan) -> BackupOutcomes] :
       drone' = [drone EXCEPT !.pc = "add",
                              !.archived = runPlan(drone.containers, drone.plan, outcomes, 1)]
  /\ UNCHANGED vaultVars

\* Run: wg.Add(len(d.project.Containers))
RunWaitGroupAdd ==
  /\ drone.part = "job"
  /\ drone.state = "running"
  /\ drone.pc = "add"
  /\ drone' = [drone EXCEPT !.pc = "range",
                            !.wg = Cardinality({name \in Services :
                                                  drone.containers[name] # NoContainer})]
  /\ UNCHANGED vaultVars

\* Run: the range over d.project.Containers starts one goroutine per container
RunStartGoroutines ==
  /\ drone.part = "job"
  /\ drone.state = "running"
  /\ drone.pc = "range"
  /\ drone' = [drone EXCEPT
       !.pc = "wait",
       !.spawned = {name \in Services : drone.containers[name] # NoContainer},
       !.pending = {drone.containers[name].ID :
                      name \in {n \in Services : drone.containers[n] # NoContainer}}]
  /\ UNCHANGED vaultVars

\* a goroutine: EnsureContainerRunning(ctnr.ID) returns (an error is logged),
\* then wg.Done(), which panics when the counter drops below zero
RunEnsureContainerRunning ==
  /\ drone.part = "job"
  /\ drone.state = "running"
  /\ \E id \in drone.pending :
       drone' = [drone EXCEPT !.pending = drone.pending \ {id},
                              !.ensured[id] = drone.ensured[id] + 1,
                              !.wg = drone.wg - 1,
                              !.state = IF drone.wg - 1 < 0 THEN "panic" ELSE "running"]
  /\ UNCHANGED vaultVars

\* Run: wg.Wait() returns when the counter is zero, and Run returns
RunReturn ==
  /\ drone.part = "job"
  /\ drone.state = "running"
  /\ drone.pc = "wait"
  /\ drone.wg = 0
  /\ drone' = [drone EXCEPT !.pc = "done"]
  /\ UNCHANGED vaultVars

\* the Watch goroutine handles a create event while the job exists
RunContainerUpdated ==
  /\ drone.part = "job"
  /\ drone.state = "running"
  /\ drone.events < MaxEvents
  /\ \E id \in ContainerIDs : \E inspected \in RunInspected(id) :
       Bind(handleContainerUpdated(drone.cache, inspected), LAMBDA r :
         drone' = [drone EXCEPT
           !.cache = r.cache,
           !.containers = IF drone.shared THEN r.cache[ProjectLabel].Containers
                          ELSE drone.containers,
           !.events = drone.events + 1])
  /\ UNCHANGED vaultVars

\* the Watch goroutine handles a destroy event while the job exists
RunContainerDestroyed ==
  /\ drone.part = "job"
  /\ drone.state = "running"
  /\ drone.events < MaxEvents
  /\ \E id \in ContainerIDs : \E entry \in EntriesOf(drone.cache, id) :
       Bind(handleContainerDestroyed(drone.cache, id, entry), LAMBDA r :
         drone' = [drone EXCEPT
           !.cache = r.cache,
           !.containers = IF drone.shared THEN r.project.Containers ELSE drone.containers,
           !.shared = drone.shared /\ r.cache[entry[1]] # NoProject,
           !.events = drone.events + 1])
  /\ UNCHANGED vaultVars

NextRun ==
  \/ RunPlanLoop
  \/ RunWaitGroupAdd
  \/ RunStartGoroutines
  \/ RunEnsureContainerRunning
  \/ RunReturn
  \/ RunContainerUpdated
  \/ RunContainerDestroyed

SpecRun == InitRun /\ [][NextRun]_vars

\* --------------------------------------- the plan loop, one container a step
\* containerProjectBackupJob.findDependents
findDependents(containers, backup) ==
  {name \in Services : /\ containers[name] # NoContainer
                        /\ backup.ServiceName \in containers[name].Dependencies}

\* the calls of one iteration that can fail: the engine's and the archive
\* tool's
BackupCalls ==
  {"EnsureContainerRunning", "EnsureContainerStopped", "Exec", "ExecWithOutput",
   "CreateWithInput", "CreateWithPaths"}

\* containerProjectBackupJob.runVolumeBackup: paths starts with
\* len(BackupVolumes) empty strings, and borg.Client.CreateWithPaths returns
\* its error for a path that is not absolute before it runs the archive tool
runVolumeBackup(backupCtnr, faults) ==
  IF backupCtnr.BackupVolumes # {} \/ "CreateWithPaths" \in faults
    THEN <<"CreateWithPaths", "backup failed">>
  ELSE <<"CreateWithPaths", "backup complete">>

\* containerProjectBackupJob.runExecBackup; after a failed CreateWithPaths the
\* warning is followed by logBackupComplete
containerRunExecBackup(backupCtnr, faults) ==
  IF backupCtnr.Exec.Stdout
    THEN IF "ExecWithOutput" \in faults
           THEN <<"ExecWithOutput", "failed to execute exec command">>
         ELSE IF "CreateWithInput" \in faults
           THEN <<"ExecWithOutput", "CreateWithInput", "backup failed">>
         ELSE <<"ExecWithOutput", "CreateWithInput", "backup complete">>
  ELSE IF "Exec" \in faults
    THEN <<"Exec", "failed to execute exec command">>
  ELSE IF "CreateWithPaths" \in faults
    THEN <<"Exec", "CreateWithPaths", "backup failed", "backup complete">>
  ELSE <<"Exec", "CreateWithPaths", "backup complete">>

\* containerProjectBackupJob.runOnlineBackup
runOnlineBackup(backupCtnr, faults) ==
  IF "EnsureContainerRunning" \in faults
    THEN <<"EnsureContainerRunning", "failed to ensure container running">>
  ELSE <<"EnsureContainerRunning">> \o
       (IF backupCtnr.Exec # Nil THEN containerRunExecBackup(backupCtnr, faults)
        ELSE runVolumeBackup(backupCtnr, faults))

\* containerProjectBackupJob.runDependentOfflineBackup
runDependentOfflineBackup(containers, backupCtnr, faults) ==
  IF "EnsureContainerRunning" \in faults
    THEN <<"EnsureContainerRunning", "failed to ensure container running">>
  ELSE IF findDependents(containers, backupCtnr) # {} /\ "EnsureContainerStopped" \in faults
    THEN <<"EnsureContainerRunning", "EnsureContainerStopped",
           "failed to ensure dependent containers stopped">>
  ELSE <<"EnsureContainerRunning">> \o
       (IF findDependents(containers, backupCtnr) # {}
          THEN <<"EnsureContainerStopped">> ELSE <<>>) \o
       (IF backupCtnr.Exec # Nil THEN containerRunExecBackup(backupCtnr, faults)
        ELSE runVolumeBackup(backupCtnr, faults))

\* containerProjectBackupJob.runOfflineBackup
runOfflineBackup(backupCtnr, faults) ==
  IF "EnsureContainerStopped" \in faults
    THEN <<"EnsureContainerStopped", "failed to ensure container stopped">>
  ELSE <<"EnsureContainerStopped">> \o runVolumeBackup(backupCtnr, faults)

\* the body of the plan loop of Run for one container: what it calls and logs
runIteration(containers, backupCtnr, faults) ==
  IF ~NeedsBackup(backupCtnr) THEN <<"skipping container, backup not needed">>
  ELSE IF backupCtnr.Mode = BackupModeDefault THEN runOnlineBackup(backupCtnr, faults)
  ELSE IF backupCtnr.Mode = BackupModeDependentOffline
    THEN runDependentOfflineBackup(containers, backupCtnr, faults)
  ELSE IF backupCtnr.Mode = BackupModeOffline THEN runOfflineBackup(backupCtnr, faults)
  ELSE <<"unknown backup mode">>

\* the calls that fail in one iteration: an iteration returns at the first
\* failed call, or has CreateWithPaths as its last call, so that one failing
\* call gives every outcome
FaultChoices == {f \in SUBSET BackupCalls : Cardinality(f) <= 1}

\* the messages that report a failed step
FailureMessages ==
  {"failed to ensure container running", "failed to ensure dependent containers stopped",
   "failed to ensure container stopped", "failed to execute exec command", "backup failed"}

\* A job that Worker.scheduleDockerBackup scheduled, before its first run. log
\* holds, for each iteration of the plan loop so far, the service name and
\* what the iteration called and logged. The project's map was visited in the
\* order of the container ids, one of the orders a Go map has: the plan loop
\* reads the plan as it is, whatever order it was built in.
InitBackup ==
  /\ VaultIdle
  /\ \E project \in Projects : \E values \in Iterations(Keys(project)) :
       /\ \A a, b \in 1..Len(values) :
            a < b => project.Containers[values[a]].ID < project.Containers[values[b]].ID
       /\ newContainerProjectBackupJob(project, values, values).job # NoJob
       /\ drone = [part |-> "backup",
                   job |-> newContainerProjectBackupJob(project, values, values).job,
                   i |-> 1, log |-> <<>>, pc |-> "loop"]

\* Run: the loop stops at the first iteration that logs a failure
RunIterationBreak ==
  /\ drone.part = "backup"
  /\ drone.pc = "loop"
  /\ drone.i <= Len(drone.job.plan)
  /\ \E faults \in FaultChoices :
       Bind(runIteration(drone.job.project.Containers, drone.job.plan[drone.i], faults),
            LAMBDA calls :
         drone' = [drone EXCEPT
           !.i = IF \E k \in 1..Len(calls) : calls[k] \in FailureMessages
                   THEN Len(drone.job.plan) + 1 ELSE drone.i + 1,
           !.log = Append(drone.log, <<drone.job.plan[drone.i].ServiceName, calls>>)])
  /\ UNCHANGED vaultVars

\* Run: one iteration of `for _, backupCtnr := range d.plan`
RunIteration ==
  /\ drone.part = "backup"
  /\ drone.pc = "loop"
  /\ drone.i <= Len(drone.job.plan)
  /\ \E faults \in FaultChoices :
       Bind(runIteration(drone.job.project.Containers, drone.job.plan[drone.i], faults),
            LAMBDA calls :
         drone' = [drone EXCEPT
           !.i = drone.i + 1,
           !.log = Append(drone.log, <<drone.job.plan[drone.i].ServiceName, calls>>)])
  /\ UNCHANGED vaultVars

\* Run: the plan loop is over, the restart of the containers starts
RunLoopEnd ==
  /\ drone.part = "backup"
  /\ drone.pc = "loop"
  /\ drone.i > Len(drone.job.plan)
  /\ drone' = [drone EXCEPT !.pc = "restart"]
  /\ UNCHANGED vaultVars

NextBackup ==
  \/ RunIteration
  \/ RunLoopEnd

SpecBackup == InitBackup /\ [][NextBackup]_vars

\* ------------------------------------------- in-container path resolution
\* Strings as sequences of characters. The characters of the paths: a
\* separator and a letter in both cases.
MaxPathLen == 3
PathChars == {"/", "a", "A"}

RECURSIVE StringsUpTo(_)
StringsUpTo(n) ==
  IF n = 0 THEN {<<>>}
  ELSE StringsUpTo(n - 1) \cup
       {Append(s, c) : s \in {t \in StringsUpTo(n - 1) : Len(t) = n - 1}, c \in PathChars}

\* strings.ToLower
ToLower(s) == [i \in 1..Len(s) |-> IF s[i] = "A" THEN "a" ELSE s[i]]

\* strings.HasPrefix(s, prefix)
StringsHasPrefix(s, prefix) ==
  Len(prefix) <= Len(s) /\ SubSeq(s, 1, Len(prefix)) = prefix

\* path.Clean of a path without dots: runs of separators become one, a
\* trailing separator goes unless the path is the root, the empty path is "."
RECURSIVE Clean(_)
Clean(p) ==
  IF p = <<>> THEN <<".">>
  ELSE IF \E i \in 1..(Len(p) - 1) : p[i] = "/" /\ p[i + 1] = "/"
    THEN Bind(CHOOSE i \in 1..(Len(p) - 1) : p[i] = "/" /\ p[i + 1] = "/", LAMBDA i :
           Clean(SubSeq(p, 1, i) \o SubSeq(p, i + 2, Len(p))))
  ELSE IF Len(p) > 1 /\ p[Len(p)] = "/" THEN SubSeq(p, 1, Len(p) - 1)
  ELSE p

\* path.Join(a, b): empty elements are ignored, the rest is joined by a
\* separator and cleaned; "" when both are empty
Join(a, b) ==
  IF a = <<>> /\ b = <<>> THEN <<>>
  ELSE IF a = <<>> THEN Clean(b)
  ELSE IF b = <<>> THEN Clean(a)
  ELSE Clean(a \o <<"/">> \o b)

\* findSourceForInContainerPath on strings, from the i-th mount of
\* ctnr.AllVolumes on; cPath[len(vol.Destination):] panics with slice bounds
\* out of range when the destination is longer than cPath
RECURSIVE findSourceFrom(_, _, _)
findSourceFrom(ctnr, cPath, i) ==
  IF i <= Len(ctnr.AllVolumes)
    THEN IF StringsHasPrefix(ToLower(ctnr.AllVolumes[i].Destination), ToLower(cPath))
           THEN IF Len(ctnr.AllVolumes[i].Destination) > Len(cPath)
                  THEN [path |-> <<>>, found |-> FALSE, panic |-> TRUE]
                ELSE [path |-> Join(ctnr.AllVolumes[i].Source,
                                    SubSeq(cPath, Len(ctnr.AllVolumes[i].Destination) + 1,
                                           Len(cPath))),
                      found |-> TRUE, panic |-> FALSE]
         ELSE findSourceFrom(ctnr, cPath, i + 1)
  ELSE IF ctnr.UpperDirPath # <<>> /\ StringsHasPrefix(ToLower(ctnr.UpperDirPath), ToLower(cPath))
    THEN [path |-> Join(ctnr.UpperDirPath, cPath), found |-> TRUE, panic |-> FALSE]
  ELSE [path |-> <<>>, found |-> FALSE, panic |-> FALSE]

findSourceForInContainerPathString(ctnr, cPath) == findSourceFrom(ctnr, cPath, 1)

\* the mounts of a container: absolute destinations, the i-th with the i-th
\* source
MountSources == <<<<"/", "s">>, <<"/", "t">>>>
MountDestinations == {d \in StringsUpTo(MaxPathLen) : Len(d) > 0 /\ d[1] = "/"}
MountLists ==
  {<<>>} \cup {<<[Source |-> MountSources[1], Destination |-> d]>> : d \in MountDestinations}
         \cup {<<[Source |-> MountSources[1], Destination |-> d],
                 [Source |-> MountSources[2], Destination |-> e]>> :
                 d \in MountDestinations, e \in MountDestinations}
UpperDirPaths == {<<>>, <<"/", "a">>}

\* a container and a path of its exec-paths label
InitPaths ==
  /\ VaultIdle
  /\ \E volumes \in MountLists, upper \in UpperDirPaths, cPath \in StringsUpTo(MaxPathLen) :
       drone = [part |-> "paths",
                ctnr |-> [AllVolumes |-> volumes, UpperDirPath |-> upper],
                cPath |-> cPath, pc |-> "called",
                result |-> [path |-> <<>>, found |-> FALSE, panic |-> FALSE]]

FindSourceForInContainerPath ==
  /\ drone.part = "paths"
  /\ drone.pc = "called"
  /\ drone' = [drone EXCEPT
       !.pc = "returned",
       !.result = findSourceForInContainerPathString(drone.ctnr, drone.cPath)]
  /\ UNCHANGED vaultVars

NextPaths == FindSourceForInContainerPath

SpecPaths == InitPaths /\ [][NextPaths]_vars

\* ------------------------------------------------------------ the scheduler
\* cron.New(cron.WithChain(cron.SkipIfStillRunning(l), cron.Recover(l))):
\* Cron.Schedule wraps every job as chain.Then(job), the first wrapper
\* outermost. SkipIfStillRunning(j) owns a channel of capacity one holding a
\* token: its Run takes the token, calls j.Run() and puts the token back, or
\* logs a skip when there is no token. Recover(j) calls j.Run() under a
\* deferred recover() that logs the panic.
MaxJobs == 2
MaxTicks == 3
JobSlots == 1..MaxJobs

\* the wrappers with Recover outside SkipIfStillRunning
ChainRecoverOutermost == <<"Recover", "SkipIfStillRunning">>

Chain == <<"SkipIfStillRunning", "Recover">>

\* the logger's Error, called by Recover with the recovered panic: it writes
\* a log line
cronLoggerError(scheduler) == scheduler

\* The end of an invocation as it returns through the wrappers from the i-th
\* one outwards: a panic passes SkipIfStillRunning without the token being
\* put back and stops at Recover; a panic that leaves the outermost wrapper
\* ends the process, since Cron runs the job in a goroutine of its own.
RECURSIVE unwind(_, _, _, _)
unwind(chain, i, panicking, token) ==
  IF i = 0 THEN [token |-> token, crash |-> panicking]
  ELSE IF chain[i] = "Recover" THEN unwind(chain, i - 1, FALSE, token)
  ELSE IF chain[i] = "SkipIfStillRunning" THEN unwind(chain, i - 1, panicking, ~panicking)
  ELSE unwind(chain, i, panicking, token)

\* a new entry of the scheduler: its wrapper's channel holds the token
NewEntry == [token |-> TRUE, running |-> 0, started |-> 0, skipped |-> 0, panics |-> 0]

\* The scheduler with the jobs of the configuration and of discovery, before
\* the first tick. orphans counts the invocations still running of entries
\* that were removed.
InitCron ==
  /\ VaultIdle
  /\ drone = [part |-> "cron", scheduler |-> "running", ticks |-> 0, reloads |-> 0,
              entries |-> [j \in JobSlots |-> NewEntry],
              orphans |-> [j \in JobSlots |-> 0]]

\* the schedule of an entry fires: the scheduler starts WrappedJob.Run() in a
\* goroutine, which runs the job or skips
CronTick ==
  /\ drone.part = "cron"
  /\ drone.scheduler = "running"
  /\ drone.ticks < MaxTicks
  /\ \E j \in JobSlots :
       drone' = [drone EXCEPT
         !.ticks = drone.ticks + 1,
         !.entries[j] =
           IF "SkipIfStillRunning" \in {Chain[i] : i \in 1..Len(Chain)} /\ ~drone.entries[j].token
             THEN [drone.entries[j] EXCEPT !.skipped = drone.entries[j].skipped + 1]
           ELSE [drone.entries[j] EXCEPT !.token = FALSE,
                                         !.running = drone.entries[j].running + 1,
                                         !.started = drone.entries[j].started + 1]]
  /\ UNCHANGED vaultVars

\* the job's Run returns
CronJobReturns ==
  /\ drone.part = "cron"
  /\ drone.scheduler = "running"
  /\ \E j \in JobSlots :
       /\ drone.entries[j].running > 0
       /\ Bind(unwind(Chain, Len(Chain), FALSE, drone.entries[j].token), LAMBDA r :
            drone' = [drone EXCEPT
              !.entries[j] = [drone.entries[j] EXCEPT
                                !.running = drone.entries[j].running - 1,
                                !.token = r.token]])
  /\ UNCHANGED vaultVars

\* the job's Run panics
CronJobPanics ==
  /\ drone.part = "cron"
  /\ drone.scheduler = "running"
  /\ \E j \in JobSlots :
       /\ drone.entries[j].running > 0
       /\ Bind(unwind(Chain, Len(Chain), TRUE, drone.entries[j].token), LAMBDA r :
            drone' = [drone EXCEPT
              !.scheduler = IF r.crash THEN "crashed" ELSE cronLoggerError(drone.scheduler),
              !.entries[j] = [drone.entries[j] EXCEPT
                                !.running = drone.entries[j].running - 1,
                                !.panics = drone.entries[j].panics + 1,
                                !.token = r.token]])
  /\ UNCHANGED vaultVars

\* Worker.ScheduleStaticBackups or scheduleDockerBackup after a reload or a
\* discovery event: scheduler.Remove(jobId), which leaves a running invocation
\* running, and scheduler.Schedule of a new job
CronReschedule ==
  /\ drone.part = "cron"
  /\ drone.scheduler = "running"
  /\ drone.reloads < MaxEvents
  /\ \E j \in JobSlots :
       drone' = [drone EXCEPT
         !.reloads = drone.reloads + 1,
         !.orphans[j] = drone.orphans[j] + drone.entries[j].running,
         !.entries[j] = NewEntry]
  /\ UNCHANGED vaultVars

\* an invocation of a removed entry ends, by return or by a recovered panic
CronOrphanEnds ==
  /\ drone.part = "cron"
  /\ drone.scheduler = "running"
  /\ \E j \in JobSlots, panicking \in BOOLEAN :
       /\ drone.orphans[j] > 0
       /\ drone' = [drone EXCEPT
            !.orphans[j] = drone.orphans[j] - 1,
            !.scheduler = IF unwind(Chain, Len(Chain), panicking, FALSE).crash
                            THEN "crashed" ELSE drone.scheduler]
  /\ UNCHANGED vaultVars

NextCron ==
  \/ CronTick
  \/ CronJobReturns
  \/ CronJobPanics
  \/ CronReschedule
  \/ CronOrphanEnds

SpecCron == InitCron /\ [][NextCron]_vars

\* ---------------------------------------------------------------- startup
\* the exit codes of the archive tool that api.HandleBorgReturnCode knows,
\* and one it does not
ReturnCodes ==
  {"Success", "Warning", "Error", "RepositoryDoesNotExist", "RepositoryIsInvalid",
   "PasscommandFailure", "PassphraseWrong", "ConnectionClosed", "ConnectionClosedWithHint",
   "unknown"}

\* what api.Run ends with: the archive tool's exit code, or an error of its
\* own (the tool could not be run, its output could not be read)
RunOutcomes == ReturnCodes \cup {"run failed"}

NoBorgError == [k |-> "none"]

\* api.HandleBorgReturnCode after api.Run: nil for success and warning, an
\* api.Error with the return code for the other known codes, a plain error
\* for an unknown code and for an error of api.Run
HandleBorgReturnCode(outcome) ==
  IF outcome \in {"Success", "Warning"} THEN [err |-> NoErr, borgError |-> NoBorgError]
  ELSE IF outcome \in ReturnCodes \ {"unknown"}
    THEN [err |-> "borg error", borgError |-> [k |-> "borgError", ReturnCode |-> outcome]]
  ELSE [err |-> "error", borgError |-> NoBorgError]

\* api.Error.IsRecoverable
IsRecoverable(borgError) == borgError.ReturnCode = "RepositoryDoesNotExist"

\* the process after ScheduleContainerBackups, with its flags; calls lists
\* the calls to the archive tool's client and to the worker
InitStartup ==
  /\ VaultIdle
  /\ \E dryRun \in BOOLEAN, once \in BOOLEAN :
       drone = [part |-> "startup", pc |-> "info", DryRun |-> dryRun, Once |-> once,
                calls |-> <<>>, first |-> "", id |-> "", err |-> NoErr,
                borgError |-> NoBorgError, initializeRepository |-> FALSE, fatal |-> ""]

\* main: info, err := borgClient.Info() and the check of its error
StartupInfo ==
  /\ drone.part = "startup"
  /\ drone.pc = "info"
  /\ \E outcome \in RunOutcomes, id \in {"", "repository id"} :
       /\ id # "" => outcome \in {"Success", "Warning"}
       /\ Bind(HandleBorgReturnCode(outcome), LAMBDA r :
            drone' = [drone EXCEPT
              !.calls = Append(drone.calls, "info"),
              !.first = outcome,
              !.id = id,
              !.err = r.err,
              !.borgError = r.borgError,
              !.pc = IF r.err # NoErr /\ (r.borgError = NoBorgError \/ ~IsRecoverable(r.borgError))
                       THEN "exited" ELSE "decide",
              !.fatal = IF r.err # NoErr /\ (r.borgError = NoBorgError \/ ~IsRecoverable(r.borgError))
                          THEN "failed to retrieve borg repository info" ELSE ""])
  /\ UNCHANGED vaultVars

\* main: initializeRepository, and the test of config.DryRun
StartupDecide ==
  /\ drone.part = "startup"
  /\ drone.pc = "decide"
  /\ drone' = [drone EXCEPT
       !.initializeRepository =
          /\ drone.id = ""
          /\ drone.err # NoErr
          /\ drone.borgError.ReturnCode = "RepositoryDoesNotExist",
       !.pc = IF drone.DryRun THEN "exit"
              ELSE IF /\ drone.id = ""
                      /\ drone.err # NoErr
                      /\ drone.borgError.ReturnCode = "RepositoryDoesNotExist"
                THEN "init" ELSE "worker"]
  /\ UNCHANGED vaultVars

\* main: err = borgClient.Init()
StartupInit ==
  /\ drone.part = "startup"
  /\ drone.pc = "init"
  /\ \E outcome \in RunOutcomes :
       Bind(HandleBorgReturnCode(outcome), LAMBDA r :
         drone' = [drone EXCEPT
           !.calls = Append(drone.calls, "init"),
           !.err = r.err,
           !.pc = IF r.err # NoErr THEN "exited" ELSE "worker",
           !.fatal = IF r.err # NoErr THEN "failed to initialize borg repository" ELSE ""])
  /\ UNCHANGED vaultVars

\* main: err = wrk.RunOnce() or err = wrk.Run(), until it returns
StartupWorker ==
  /\ drone.part = "startup"
  /\ drone.pc = "worker"
  /\ \E err \in {NoErr, "watch failed"} :
       /\ drone.Once => err = NoErr
       /\ drone' = [drone EXCEPT
            !.calls = Append(drone.calls, IF drone.Once THEN "RunOnce" ELSE "Run"),
            !.err = err,
            !.pc = "exit"]
  /\ UNCHANGED vaultVars

\* main: the last check of err
StartupExit ==
  /\ drone.part = "startup"
  /\ drone.pc = "exit"
  /\ drone' = [drone EXCEPT
       !.pc = "exited",
       !.fatal = IF drone.err # NoErr THEN "scheduler failed" ELSE ""]
  /\ UNCHANGED vaultVars

NextStartup ==
  \/ StartupInfo
  \/ StartupDecide
  \/ StartupInit
  \/ StartupWorker
  \/ StartupExit

SpecStartup == InitStartup /\ [][NextStartup]_vars

\* ------------------------------------------------ variables in exec labels
\* The characters of an exec label of one word, the names and values of the
\* container's environment.
MaxWordLen == 5
LabelChars == {"&", "{", "}", "N", "M"}
NameChars == {"N", "M"}

RECURSIVE WordsUpTo(_)
WordsUpTo(n) ==
  IF n = 0 THEN {<<>>}
  ELSE WordsUpTo(n - 1) \cup
       {Append(s, c) : s \in {t \in WordsUpTo(n - 1) : Len(t) = n - 1}, c \in LabelChars}

EnvNames == {<<"N">>, <<"N", "M">>}
EnvValue(name) == IF name = <<"N">> THEN <<"w">> ELSE <<"v">>
Envs == {[name \in D |-> EnvValue(name)] : D \in SUBSET EnvNames}

\* ampEnvEscape.ReplaceAllString(value, "${") with ampEnvEscape = `&\{`: in the
\* replacement "${" is a malformed reference, which regexp expands to itself
ampEnvEscape(value) ==
  [i \in 1..Len(value) |->
     IF value[i] = "&" /\ i < Len(value) /\ value[i + 1] = "{" THEN "$" ELSE value[i]]

\* utils.SplitCommandLine of a value without blanks and quotes
SplitCommandLineWord(value) == IF value = <<>> THEN <<>> ELSE <<value>>

\* mapInspectToContainerBackup: Exec.Command of the exec label
execCommandOfLabel(value) == SplitCommandLineWord(ampEnvEscape(value))

\* envVarRegex = `&\{(\S+?)}|&\S+?` at position i of s: the end of the match
\* of the first alternative (the first closing brace after at least one
\* character), else of the second one (one character, \S+? being lazy with
\* nothing after it), else 0
envVarRegexMatchEnd(s, i) ==
  IF s[i] # "&" \/ i = Len(s) THEN 0
  ELSE IF s[i + 1] = "{" /\ \E k \in (i + 3)..Len(s) : s[k] = "}"
    THEN CHOOSE k \in (i + 3)..Len(s) :
           s[k] = "}" /\ \A l \in (i + 3)..(k - 1) : s[l] # "}"
  ELSE i + 1

\* the function expandCmd passes to ReplaceAllStringFunc
expandMatch(s, env) ==
  Bind(IF s[2] = "{" THEN SubSeq(s, 3, Len(s) - 1) ELSE SubSeq(s, 2, Len(s)), LAMBDA name :
    IF name \in DOMAIN env THEN env[name] ELSE s)

\* envVarRegex.ReplaceAllStringFunc(s, ...) from position i on
RECURSIVE expandFrom(_, _, _)
expandFrom(s, i, env) ==
  IF i > Len(s) THEN <<>>
  ELSE IF envVarRegexMatchEnd(s, i) # 0
    THEN expandMatch(SubSeq(s, i, envVarRegexMatchEnd(s, i)), env)
         \o expandFrom(s, envVarRegexMatchEnd(s, i) + 1, env)
  ELSE <<s[i]>> \o expandFrom(s, i + 1, env)

\* expandCmd
expandCmd(cmd, env) == [i \in 1..Len(cmd) |-> expandFrom(cmd[i], 1, env)]

\* a container with an exec label and an environment, before discovery
InitExec ==
  /\ VaultIdle
  /\ \E label \in WordsUpTo(MaxWordLen) \ {<<>>}, env \in Envs :
       drone = [part |-> "exec", label |-> label, env |-> env, pc |-> "created",
                Command |-> <<>>, argv |-> <<>>]

\* discovery maps the container
ExecDiscovered ==
  /\ drone.part = "exec"
  /\ drone.pc = "created"
  /\ drone' = [drone EXCEPT !.pc = "discovered", !.Command = execCommandOfLabel(drone.label)]
  /\ UNCHANGED vaultVars

\* Client.Exec or Client.ExecWithOutput: the Cmd of ContainerExecCreate
ExecCreate ==
  /\ drone.part = "exec"
  /\ drone.pc = "discovered"
  /\ drone' = [drone EXCEPT !.pc = "executed", !.argv = expandCmd(drone.Command, drone.env)]
  /\ UNCHANGED vaultVars

NextExec ==
  \/ ExecDiscovered
  \/ ExecCreate

SpecExec == InitExec /\ [][NextExec]_vars

\* A label with its references replaced: at an ampersand, a name in braces
\* or the longest name that follows is looked up in the environment; a
\* reference to an undefined name, and every other character, stays.
ReferenceEnd(s, i) ==
  IF s[i] # "&" \/ i = Len(s) THEN 0
  ELSE IF /\ s[i + 1] = "{"
          /\ \E k \in (i + 3)..Len(s) :
               s[k] = "}" /\ \A l \in (i + 2)..(k - 1) : s[l] \in NameChars
    THEN CHOOSE k \in (i + 3)..Len(s) :
           s[k] = "}" /\ \A l \in (i + 2)..(k - 1) : s[l] \in NameChars
  ELSE IF s[i + 1] \in NameChars
    THEN CHOOSE k \in (i + 1)..Len(s) :
           /\ \A l \in (i + 1)..k : s[l] \in NameChars
           /\ k = Len(s) \/ s[k + 1] \notin NameChars
  ELSE 0

RECURSIVE ReferencesReplaced(_, _, _)
ReferencesReplaced(s, i, env) ==
  IF i > Len(s) THEN <<>>
  ELSE IF ReferenceEnd(s, i) # 0
    THEN Bind(IF s[i + 1] = "{" THEN SubSeq(s, i + 2, ReferenceEnd(s, i) - 1)
              ELSE SubSeq(s, i + 1, ReferenceEnd(s, i)), LAMBDA name :
           (IF name \in DOMAIN env THEN env[name] ELSE SubSeq(s, i, ReferenceEnd(s, i)))
           \o ReferencesReplaced(s, ReferenceEnd(s, i) + 1, env))
  ELSE <<s[i]>> \o ReferencesReplaced(s, i + 1, env)

\* ---------------------------------------------------------- the config watch
\* The config file and the goroutine of config.NewWatch. The file holds a
\* configuration ("A", "B"), nothing ("empty", which LoadConfig decodes to the
\* zero Config) or text that LoadConfig rejects ("invalid"), or is absent. The
\* kernel reports an operation on the file when the file or its directory is
\* watched at that moment; a removed file is no longer watched.
MaxFileOps == 4
ConfigContents == {"A", "B", "invalid"}
NoMessage == [k |-> "none"]

\* config.LoadConfig of the file as it is when the event is handled
LoadConfig(file) ==
  IF file \in {"A", "B", "empty"} THEN [config |-> file, err |-> NoErr]
  ELSE IF file = "absent" THEN [config |-> "", err |-> "open: no such file or directory"]
  ELSE [config |-> "", err |-> "toml: invalid"]

\* after NewWatch has returned for an existing file; the worker has scheduled
\* the jobs of the configuration it was started with. history lists the
\* operations on the file, the timeouts and what the watch sent; last is the
\* event handled last.
InitWatch ==
  /\ VaultIdle
  /\ drone = [part |-> "watch", file |-> "A", fileWatch |-> TRUE, dirWatch |-> FALSE,
              events |-> <<>>, watchingParentDir |-> FALSE, lastOp |-> "",
              goroutine |-> "running", chan |-> NoMessage,
              worker |-> "running", jobs |-> "A", ops |-> 0, history |-> <<>>,
              last |-> [event |-> "", load |-> "", sent |-> "", jobs |-> ""]]

\* the file is removed
FileRemove ==
  /\ drone.part = "watch"
  /\ drone.ops < MaxFileOps
  /\ drone.file # "absent"
  /\ drone' = [drone EXCEPT
       !.file = "absent",
       !.ops = drone.ops + 1,
       !.fileWatch = FALSE,
       !.events = IF drone.fileWatch \/ drone.dirWatch
                    THEN Append(drone.events, "Remove") ELSE drone.events,
       !.history = Append(drone.history, "remove")]
  /\ UNCHANGED vaultVars

\* the file is created
FileCreate ==
  /\ drone.part = "watch"
  /\ drone.ops < MaxFileOps
  /\ drone.file = "absent"
  /\ drone' = [drone EXCEPT
       !.file = "empty",
       !.ops = drone.ops + 1,
       !.events = IF drone.dirWatch THEN Append(drone.events, "Create") ELSE drone.events,
       !.history = Append(drone.history, "create")]
  /\ UNCHANGED vaultVars

\* the file is written
FileWrite ==
  /\ drone.part = "watch"
  /\ drone.ops < MaxFileOps
  /\ drone.file # "absent"
  /\ \E content \in ConfigContents :
       drone' = [drone EXCEPT
         !.file = content,
         !.ops = drone.ops + 1,
         !.events = IF drone.fileWatch \/ drone.dirWatch
                      THEN Append(drone.events, "Write") ELSE drone.events,
         !.history = Append(drone.history,
                            IF content = "invalid" THEN "write invalid" ELSE "write")]
  /\ UNCHANGED vaultVars

\* the goroutine sends on watch.updates or watch.err and waits for the worker
send(d, message) ==
  [d EXCEPT !.goroutine = "sending", !.chan = message,
            !.history = Append(d.history, message.k)]

\* case event := <-watcher.Events with a Remove
handleRemove(d) ==
  IF d.watchingParentDir
    THEN send([d EXCEPT !.last = [event |-> "Remove", load |-> "", sent |-> "error",
                                  jobs |-> d.jobs]],
              [k |-> "error", value |-> "config file parent directory was removed"])
  ELSE [d EXCEPT !.lastOp = "Remove", !.dirWatch = TRUE, !.watchingParentDir = TRUE,
                 !.last = [event |-> "Remove", load |-> "", sent |-> "none", jobs |-> d.jobs]]

\* the rest of the Write case with the load failure reported on watch.err
handleLoadReportingFailure(d) ==
  IF LoadConfig(d.file).err # NoErr
    THEN send([d EXCEPT !.last = [event |-> "Write", load |-> "failed", sent |-> "error",
                                  jobs |-> d.jobs]],
              [k |-> "error", value |-> LoadConfig(d.file).err])
  ELSE send([d EXCEPT !.last = [event |-> "Write", load |-> "ok", sent |-> "update",
                                jobs |-> d.jobs]],
            [k |-> "update", value |-> LoadConfig(d.file).config])

\* the rest of the Write case: LoadConfig, and the update or the log line
handleLoad(d) ==
  IF LoadConfig(d.file).err # NoErr
    THEN [d EXCEPT !.last = [event |-> "Write", load |-> "failed", sent |-> "none",
                             jobs |-> d.jobs]]
  ELSE send([d EXCEPT !.last = [event |-> "Write", load |-> "ok", sent |-> "update",
                                jobs |-> d.jobs]],
            [k |-> "update", value |-> LoadConfig(d.file).config])

\* case event := <-watcher.Events with a Write of the config file: the watch
\* goes back from the directory to the file, which fails when the file is gone
handleWrite(d) ==
  IF d.watchingParentDir
    THEN IF d.file = "absent"
           THEN send([d EXCEPT !.lastOp = "", !.dirWatch = FALSE, !.watchingParentDir = FALSE,
                               !.last = [event |-> "Write", load |-> "", sent |-> "error",
                                         jobs |-> d.jobs]],
                     [k |-> "error", value |-> "no such file or directory"])
         ELSE handleLoad([d EXCEPT !.lastOp = "", !.dirWatch = FALSE, !.fileWatch = TRUE,
                                   !.watchingParentDir = FALSE])
  ELSE handleLoad([d EXCEPT !.lastOp = ""])

\* one iteration of the goroutine's loop that receives an event
WatchEvent ==
  /\ drone.part = "watch"
  /\ drone.goroutine = "running"
  /\ drone.events # <<>>
  /\ drone' =
       IF Head(drone.events) = "Remove"
         THEN handleRemove([drone EXCEPT !.events = Tail(drone.events)])
       ELSE IF Head(drone.events) = "Write"
         THEN handleWrite([drone EXCEPT !.events = Tail(drone.events)])
       ELSE [drone EXCEPT !.events = Tail(drone.events), !.lastOp = "",
                          !.last = [event |-> Head(drone.events), load |-> "",
                                    sent |-> "none", jobs |-> drone.jobs]]
  /\ UNCHANGED vaultVars

\* one iteration that receives from time.After(500 * time.Millisecond): no
\* event came for that long
WatchTimeout ==
  /\ drone.part = "watch"
  /\ drone.goroutine = "running"
  /\ drone.events = <<>>
  /\ drone.history # <<>>
  /\ drone.history[Len(drone.history)] # "timeout"
  /\ drone' =
       IF drone.lastOp # ""
         THEN send([drone EXCEPT !.history = Append(drone.history, "timeout")],
                   [k |-> "error", value |-> "timed out after last op"])
       ELSE [drone EXCEPT !.history = Append(drone.history, "timeout")]
  /\ UNCHANGED vaultVars

\* Worker.Run: case cfg := <-configWatch.Updates()
WorkerConfigUpdate ==
  /\ drone.part = "watch"
  /\ drone.worker = "running"
  /\ drone.chan.k = "update"
  /\ drone' = [drone EXCEPT !.jobs = drone.chan.value, !.chan = NoMessage,
                            !.goroutine = "running"]
  /\ UNCHANGED vaultVars

\* Worker.Run: case err = <-configWatch.Errors(), after which the goroutine
\* returns
WorkerConfigError ==
  /\ drone.part = "watch"
  /\ drone.worker = "running"
  /\ drone.chan.k = "error"
  /\ drone' = [drone EXCEPT !.worker = "returned", !.chan = NoMessage,
                            !.goroutine = "returned"]
  /\ UNCHANGED vaultVars

NextWatch ==
  \/ FileRemove
  \/ FileCreate
  \/ FileWrite
  \/ WatchEvent
  \/ WatchTimeout
  \/ WorkerConfigUpdate
  \/ WorkerConfigError

SpecWatch == InitWatch /\ [][NextWatch]_vars

\* the operations and timeouts of a history, and what the watch sent
FileHistory(h) == SelectSeq(h, LAMBDA x : x \notin {"update", "error"})
Sent(h) == SelectSeq(h, LAMBDA x : x \in {"update", "error"})

\* ------------------------------------------------------ container watch
\* Client.Watch: the goroutine takes the events of the Docker daemon one by
\* one, handles each with handleEvent and sends the project on the updates
\* channel or the error on the error channel; Worker.Run schedules the project
\* of an update and returns at an error.  A container has its labels from its
\* creation to its removal, and ContainerInspect fails for one that is gone.

\* containers the daemon creates in a run, and events it reports
MaxWatched == 2
MaxDockerEvents == 5
WatchedIDs == 1..MaxWatched
WatchedLabels ==
  {[DefaultLabels(name) EXCEPT !.enabled = enabled] :
     name \in {ServiceNames[i] : i \in WatchedIDs} \cup {""}, enabled \in {"true", "false"}}

InspectOf(id, labels) == [ID |-> id, Mounts |-> {MountData}, Labels |-> labels]

\* the dockerd side of ContainerInspect
ContainerInspect(d, id) ==
  IF d.status[id] = "exists"
    THEN [err |-> NoErr, inspect |-> InspectOf(id, d.labels[id])]
    ELSE [err |-> "No such container", inspect |-> NoInspect]

ContainerIDsOf(project) == {project.Containers[name].ID : name \in Keys(project)}

InitSnapshots ==
  /\ VaultIdle
  /\ \E labels \in [WatchedIDs -> WatchedLabels] :
       drone = [part |-> "snapshots", labels |-> labels,
                status |-> [id \in WatchedIDs |-> "absent"],
                dockerEvents |-> <<>>, reported |-> 0,
                cache |-> [name \in ProjectNames |-> NoProject],
                worker |-> "running", seen |-> {},
                last |-> [op |-> "none", id |-> 0, known |-> FALSE,
                          emitted |-> "none", project |-> NoProject]]

\* the daemon's event for what happened to container id
reports(d, op, id) ==
  [d EXCEPT !.reported = @ + 1, !.dockerEvents = Append(@, [op |-> op, id |-> id])]

\* a container is created
DockerCreate ==
  /\ drone.part = "snapshots"
  /\ drone.reported < MaxDockerEvents
  /\ \E id \in WatchedIDs :
       /\ drone.status[id] = "absent"
       /\ drone' = [reports(drone, "create", id) EXCEPT !.status[id] = "exists"]
  /\ UNCHANGED vaultVars

\* a container is updated (docker update)
DockerUpdate ==
  /\ drone.part = "snapshots"
  /\ drone.reported < MaxDockerEvents
  /\ \E id \in WatchedIDs :
       /\ drone.status[id] = "exists"
       /\ drone' = reports(drone, "update", id)
  /\ UNCHANGED vaultVars

\* a container is removed
DockerDestroy ==
  /\ drone.part = "snapshots"
  /\ drone.reported < MaxDockerEvents
  /\ \E id \in WatchedIDs :
       /\ drone.status[id] = "exists"
       /\ drone' = [reports(drone, "destroy", id) EXCEPT !.status[id] = "gone"]
  /\ UNCHANGED vaultVars

\* what the goroutine sends for the result of handleEvent
EmittedFor(r) ==
  IF r.err # NoErr THEN "error" ELSE IF r.project # NoProject THEN "update" ELSE "none"

\* the goroutine of Client.Watch handles a create or update event
WatchContainerUpdated ==
  /\ drone.part = "snapshots"
  /\ drone.worker = "running"
  /\ drone.dockerEvents # <<>>
  /\ Head(drone.dockerEvents).op \in {"create", "update"}
  /\ Bind(Head(drone.dockerEvents), LAMBDA event :
       Bind(handleContainerUpdated(drone.cache, ContainerInspect(drone, event.id)), LAMBDA r :
         drone' = [drone EXCEPT
                     !.dockerEvents = Tail(@),
                     !.cache = r.cache,
                     !.worker = IF r.err # NoErr THEN "returned" ELSE @,
                     !.seen = @ \cup {event.id},
                     !.last = [op |-> event.op, id |-> event.id, known |-> FALSE,
                               emitted |-> EmittedFor(r), project |-> r.project]]))
  /\ UNCHANGED vaultVars

\* the goroutine of Client.Watch handles a destroy event
WatchContainerDestroyed ==
  /\ drone.part = "snapshots"
  /\ drone.worker = "running"
  /\ drone.dockerEvents # <<>>
  /\ Head(drone.dockerEvents).op = "destroy"
  /\ Bind(Head(drone.dockerEvents), LAMBDA event :
       \E entry \in IF EntriesOf(drone.cache, event.id) = {}
                      THEN {<<ProjectLabel, ServiceNames[1]>>}
                      ELSE EntriesOf(drone.cache, event.id) :
         Bind(handleContainerDestroyed(drone.cache, event.id, entry), LAMBDA r :
           drone' = [drone EXCEPT
                       !.dockerEvents = Tail(@),
                       !.cache = r.cache,
                       !.seen = @ \ {event.id},
                       !.last = [op |-> "destroy", id |-> event.id,
                                 known |-> EntriesOf(drone.cache, event.id) # {},
                                 emitted |-> IF r.project # NoProject THEN "update"
                                             ELSE "none",
                                 project |-> r.project]]))
  /\ UNCHANGED vaultVars

NextSnapshots ==
  \/ DockerCreate
  \/ DockerUpdate
  \/ DockerDestroy
  \/ WatchContainerUpdated
  \/ WatchContainerDestroyed

SpecSnapshots == InitSnapshots /\ [][NextSnapshots]_vars

\* the container takes part in backups: it is labeled enabled=true and its
\* labels give a project and a container backup
Participates(d, id) ==
  /\ isBorgdEnabled(InspectOf(id, d.labels[id]))
  /\ mapInspectToProject(InspectOf(id, d.labels[id])).err = NoErr
  /\ mapInspectToContainerBackup(InspectOf(id, d.labels[id])).err = NoErr

\* the containers of the project that the watch was told of and not told the
\* removal of
SeenSoFar(d) == {id \in d.seen : Participates(d, id)}

\* ------------------------------------------------------ the vault's lock
\* Concurrent callers of one unlocked vault holding one item, a backend that
\* does not fail.  An operation is cut into its steps: taking v.lock, each
\* backend call, each assignment to v.items, and the deferred release.

\* goroutines calling the vault, and calls they make in a run
MaxCallers == 2
MaxCalls == 3
Callers == 1..MaxCallers
\* the id of the one item of the vault
TheItem == CHOOSE id \in Ids : \A other \in Ids : id <= other
PeerCalls == {[name |-> "GetItemForPeer", peer |-> p, value |-> NoBuf] : p \in Peers}
ValueCalls == {[name |-> "SetItemValue", peer |-> NoPeer, value |-> v] : v \in Values \ {<<>>}}
ReadCalls == {[name |-> n, peer |-> NoPeer, value |-> NoBuf] : n \in {"GetItem", "Items"}}
NoCall == [name |-> "none", peer |-> NoPeer, value |-> NoBuf]

\* had every operation taken v.lock.RLock()
lockModeShared(name) == "shared"

\* v.lock.RLock() in Items and GetItem, v.lock.Lock() in GetItemForPeer and
\* SetItemValue
lockMode(name) == IF name \in {"Items", "GetItem"} THEN "shared" ELSE "exclusive"

\* sync.RWMutex: Lock waits for the writer and the readers, RLock for the writer
CanAcquire(lock, mode) ==
  IF mode = "exclusive" THEN lock.w = 0 /\ lock.r = {} ELSE lock.w = 0
Acquire(lock, mode, c) ==
  IF mode = "exclusive" THEN [lock EXCEPT !.w = c] ELSE [lock EXCEPT !.r = @ \cup {c}]
Release(lock, c) ==
  IF lock.w = c THEN [lock EXCEPT !.w = 0] ELSE [lock EXCEPT !.r = @ \ {c}]

\* the first step of an operation once it holds the lock and has read
\* v.items[id]
firstStep(call, item) ==
  CASE call.name = "SetItemValue" -> IF item.checksum # EmptySum THEN "backup" ELSE "value"
    [] call.name = "GetItemForPeer" -> "verify"
    [] call.name = "GetItem" -> "read"
    [] OTHER -> "items"

InitLocking ==
  /\ VaultIdle
  /\ \E value \in Values :
       drone = [part |-> "locking",
                lock |-> [w |-> 0, r |-> {}],
                pc |-> [c \in Callers |-> "idle"],
                call |-> [c \in Callers |-> NoCall],
                item |-> [c \in Callers |-> Nil],
                calls |-> 0,
                items |-> Item(TheItem, NoPeer, IF value = <<>> THEN EmptySum ELSE sum(value)),
                json |-> Item(TheItem, NoPeer, IF value = <<>> THEN EmptySum ELSE sum(value)),
                age |-> IF value = <<>> THEN Absent ELSE Age({"primary"}, value),
                bak |-> Absent,
                ret |-> [c \in Callers |-> [name |-> "none", err |-> NoErr, value |-> NoBuf]]]

\* a goroutine calls an operation and comes to its v.lock.Lock() or RLock()
LockingCall ==
  /\ drone.part = "locking"
  /\ drone.calls < MaxCalls
  /\ \E c \in Callers : \E call \in PeerCalls \cup ValueCalls \cup ReadCalls :
       /\ drone.pc[c] = "idle"
       /\ drone' = [drone EXCEPT !.pc[c] = "lock", !.call[c] = call, !.calls = @ + 1]
  /\ UNCHANGED vaultVars

\* the lock is granted; the operation reads v.items[id]
LockingAcquire ==
  /\ drone.part = "locking"
  /\ \E c \in Callers :
       /\ drone.pc[c] = "lock"
       /\ CanAcquire(drone.lock, lockMode(drone.call[c].name))
       /\ drone' = [drone EXCEPT
                      !.lock = Acquire(@, lockMode(drone.call[c].name), c),
                      !.item[c] = drone.items,
                      !.pc[c] = firstStep(drone.call[c], drone.items)]
  /\ UNCHANGED vaultVars

\* the return of an operation with its deferred Unlock or RUnlock
returns(d, c, err, value) ==
  [d EXCEPT !.lock = Release(@, c), !.pc[c] = "idle", !.item[c] = Nil,
            !.ret[c] = [name |-> d.call[c].name, err |-> err, value |-> value]]

\* writeItemValueUnsafe: copyFile(vPath, bPath)
LockingBackup ==
  /\ drone.part = "locking"
  /\ \E c \in Callers :
       /\ drone.pc[c] = "backup"
       /\ drone' = [drone EXCEPT !.bak = drone.age, !.pc[c] = "value"]
  /\ UNCHANGED vaultVars

\* writeItemValueUnsafe: item.Checksum = checksum; WriteFile(valuePath(item))
LockingWriteValue ==
  /\ drone.part = "locking"
  /\ \E c \in Callers :
       /\ drone.pc[c] = "value"
       /\ drone' = [drone EXCEPT !.age = Age({"primary"}, drone.call[c].value),
                                 !.item[c].checksum = sum(drone.call[c].value),
                                 !.pc[c] = "metadata"]
  /\ UNCHANGED vaultVars

\* writeItemValueUnsafe: writeItemMetadataUnsafe
LockingWriteMetadata ==
  /\ drone.part = "locking"
  /\ \E c \in Callers :
       /\ drone.pc[c] = "metadata"
       /\ drone' = [drone EXCEPT !.json = drone.item[c], !.pc[c] = "store"]
  /\ UNCHANGED vaultVars

\* writeItemValueUnsafe: v.items[item.Id] = item, and SetItemValue returns
LockingStore ==
  /\ drone.part = "locking"
  /\ \E c \in Callers :
       /\ drone.pc[c] = "store"
       /\ drone' = returns([drone EXCEPT !.items = drone.item[c]], c, NoErr, NoBuf)
  /\ UNCHANGED vaultVars

\* verifyPeerUnsafe on its copy of the item: a first peer is written to the
\* metadata file, another peer than the item's is refused
LockingVerifyPeer ==
  /\ drone.part = "locking"
  /\ \E c \in Callers :
       /\ drone.pc[c] = "verify"
       /\ drone' =
            IF drone.item[c].peer = NoPeer
              THEN [drone EXCEPT !.json = [drone.item[c] EXCEPT !.peer = drone.call[c].peer],
                                 !.pc[c] = "pin"]
            ELSE IF drone.item[c].peer # drone.call[c].peer
              THEN returns(drone, c, "client credentials mismatch", NoBuf)
            ELSE [drone EXCEPT !.pc[c] = "read"]
  /\ UNCHANGED vaultVars

\* verifyPeerUnsafe: v.items[item.Id] = item
LockingPinPeer ==
  /\ drone.part = "locking"
  /\ \E c \in Callers :
       /\ drone.pc[c] = "pin"
       /\ drone' = [drone EXCEPT !.items = [drone.item[c] EXCEPT !.peer = drone.call[c].peer],
                                 !.pc[c] = "read"]
  /\ UNCHANGED vaultVars

\* GetItem and GetItemForPeer from item.Checksum == "" on, with
\* readItemValueUnsafe
LockingRead ==
  /\ drone.part = "locking"
  /\ \E c \in Callers :
       /\ drone.pc[c] = "read"
       /\ drone' =
            IF drone.item[c].checksum = EmptySum THEN returns(drone, c, NoErr, NoBuf)
            ELSE IF drone.age = Absent
              THEN returns(drone, c, "item value file not found", NoBuf)
            ELSE IF sum(drone.age.pt) # drone.item[c].checksum
              THEN returns(drone, c, "checksum mismatch", NoBuf)
            ELSE returns(drone, c, NoErr, drone.age.pt)
  /\ UNCHANGED vaultVars

\* Items: slices.Collect(maps.Values(v.items))
LockingItems ==
  /\ drone.part = "locking"
  /\ \E c \in Callers :
       /\ drone.pc[c] = "items"
       /\ drone' = returns(drone, c, NoErr, <<drone.items>>)
  /\ UNCHANGED vaultVars

NextLocking ==
  \/ LockingCall
  \/ LockingAcquire
  \/ LockingBackup
  \/ LockingWriteValue
  \/ LockingWriteMetadata
  \/ LockingStore
  \/ LockingVerifyPeer
  \/ LockingPinPeer
  \/ LockingRead
  \/ LockingItems

SpecLocking == InitLocking /\ [][NextLocking]_vars

\* the item's checksum in memory and in <uuid>.json is the one of the value
\* file, or empty with no value file
ValueMatchesChecksum(d) ==
  /\ d.json.checksum = d.items.checksum
  /\ IF d.items.checksum = EmptySum THEN d.age = Absent
     ELSE d.age # Absent /\ sum(d.age.pt) = d.items.checksum

\* the steps of an operation that write a file or v.items
WritingSteps == {"backup", "value", "metadata", "store", "verify", "pin"}

\* ------------------------------------------- recovery recipient rollback
\* SetRecoveryRecipient on a backend whose writes fail while the recipient
\* files are written: every other operation of the run meets no failure.

\* backend calls of one SetRecoveryRecipient that fail
MaxRollbackFaults == 4

\* the sets of at most MaxRollbackFaults failing backend calls that Op meets
RollbackFaultSets(Op(_)) ==
  LET F[k \in 0..MaxRollbackFaults] ==
        IF k = 0 THEN {{}}
        ELSE F[k - 1] \cup
             UNION {{f \cup {i} : i \in ((IF f = {} THEN 0 ELSE SetMax(f)) + 1)
                                          .. Op(Machine(f)).s.n}
                    : f \in F[k - 1]}
  IN  F[MaxRollbackFaults]

\* the passes of the loop  for i := 0; i < 3; i++  that run before it ends
RECURSIVE restorePasses(_, _, _, _)
restorePasses(s, old, secret, i) ==
  IF i >= restoreAttempts THEN i
  ELSE IF writeRecoveryRecipient(s, old, secret).err = NoErr THEN i + 1
  ELSE restorePasses(writeRecoveryRecipient(s, old, secret).s, old, secret, i + 1)

NoRollback == [k |-> "none"]

\* what a call of SetRecoveryRecipient that started in machine state m met:
\* the recipient it loaded, whether its write of the new one failed, and the
\* passes of the restore loop
RollbackOf(m, rcpt) ==
  IF IsLocked(m) \/ m.v.metadataHmacSecret = Nil THEN NoRollback
  ELSE Bind(loadRecoveryRecipient(m, m.v.metadataHmacSecret.data), LAMBDA old :
    IF old.err # NoErr THEN NoRollback
    ELSE Bind(writeRecoveryRecipient(old.s, rcpt, m.v.metadataHmacSecret.data), LAMBDA w :
      [k |-> "rollback", at |-> steps + 1, disk |-> m.disk, old |-> old.rcpt,
       failed |-> w.err # NoErr,
       passes |-> IF w.err # NoErr /\ old.rcpt # NoRcpt
                    THEN restorePasses(w.s, old.rcpt, m.v.metadataHmacSecret.data, 0)
                    ELSE 0]))

InitRollback == InitVault /\ backend = "rollback"

\* SetRecoveryRecipient with failing backend calls
DoSetRecoveryRecipientFailing ==
  /\ proc = "running"
  /\ backend = "rollback"
  /\ steps < StepBound
  /\ \E rcpt \in RecipientInputs, order \in Orders :
       \E F \in RollbackFaultSets(LAMBDA s : SetRecoveryRecipient(s, rcpt, order)) \ {{}} :
         Bind(SetRecoveryRecipient(Machine(F), rcpt, order), LAMBDA r :
           /\ steps' = steps + 1
           /\ disk' = r.s.disk
           /\ vault' = r.s.v
           /\ proc' = r.s.proc
           /\ clean' = FALSE
           /\ last' = [op |-> "SetRecoveryRecipient", id |-> 0, arg |-> rcpt, err |-> r.err,
                       ret |-> <<>>, calls |-> r.s.n, faulted |-> TRUE,
                       wasLocked |-> vault.identityKey = Nil,
                       changed |-> (r.s.disk # disk \/ r.s.v # vault)]
           /\ snap' = NoSnap
           /\ drone' = [part |-> "none", rollback |-> RollbackOf(Machine(F), rcpt)])
  /\ UNCHANGED <<build, backend, nextId>>

NextRollback ==
  \/ DoUnlock
  \/ DoCreateItem
  \/ DoSetItemValue
  \/ DoSetRecoveryRecipient
  \/ DoSetRecoveryRecipientFailing

SpecRollback == InitRollback /\ [][NextRollback]_vars

\* the last operation was a SetRecoveryRecipient that found a previous
\* recipient and failed to write the new one
RollbackCase ==
  /\ backend = "rollback"
  /\ drone # NoDrone
  /\ drone.rollback # NoRollback
  /\ drone.rollback.at = steps
  /\ drone.rollback.old # NoRcpt
  /\ drone.rollback.failed

\* ------------------------------------- runDependentOfflineBackup, by steps
\* One call of runDependentOfflineBackup for a container of a job's plan:
\* EnsureContainerRunning, one goroutine of the errgroup for each dependent,
\* eg.Wait, then the archive step.  stopped holds what EnsureContainerStopped
\* returned for each dependent; after a first failure the group's context is
\* cancelled and a call that has not returned yet may still end either way.

\* runDependentOfflineBackup after eg.Wait(), had its error been dropped
afterWaitIgnoringError(stopped) == "archive"

\* runDependentOfflineBackup after eg.Wait(): a failed call of the group
\* ends the backup of the container
afterWait(stopped) ==
  IF \E name \in DOMAIN stopped : stopped[name] = "failed" THEN "skipped" ELSE "archive"

InitDependents ==
  /\ VaultIdle
  /\ \E project \in Projects : \E values \in Iterations(Keys(project)) :
       /\ \A a, b \in 1..Len(values) :
            a < b => project.Containers[values[a]].ID < project.Containers[values[b]].ID
       /\ newContainerProjectBackupJob(project, values, values).job # NoJob
       /\ \E i \in 1..Len(values) :
            /\ newContainerProjectBackupJob(project, values, values).job.plan[i].Mode
                 = BackupModeDependentOffline
            /\ drone = [part |-> "dependents",
                        job |-> newContainerProjectBackupJob(project, values, values).job,
                        i |-> i, pc |-> "start", running |-> "pending",
                        stopped |-> [name \in {} |-> "pending"], calls |-> <<>>]

\* d.engine.EnsureContainerRunning(d.ctx, backupCtnr.ID), then findDependents
\* and one eg.Go for each dependent
DependentsEnsureRunning ==
  /\ drone.part = "dependents"
  /\ drone.pc = "start"
  /\ \E ok \in BOOLEAN :
       drone' =
         IF ~ok
           THEN [drone EXCEPT !.pc = "skipped", !.running = "failed",
                   !.calls = <<"EnsureContainerRunning", "failed to ensure container running">>]
         ELSE [drone EXCEPT
                 !.running = "ok",
                 !.calls = <<"EnsureContainerRunning">>,
                 !.stopped = [name \in findDependents(drone.job.project.Containers,
                                                      drone.job.plan[drone.i]) |-> "pending"],
                 !.pc = IF findDependents(drone.job.project.Containers,
                                          drone.job.plan[drone.i]) = {}
                          THEN "archive" ELSE "stopping"]
  /\ UNCHANGED vaultVars

\* a goroutine of the group: d.engine.EnsureContainerStopped(egCtx, dependent.ID)
DependentsEnsureStopped ==
  /\ drone.part = "dependents"
  /\ drone.pc = "stopping"
  /\ \E name \in DOMAIN drone.stopped : \E ok \in BOOLEAN :
       /\ drone.stopped[name] = "pending"
       /\ drone' = [drone EXCEPT !.stopped[name] = IF ok THEN "ok" ELSE "failed",
                                 !.calls = Append(@, "EnsureContainerStopped")]
  /\ UNCHANGED vaultVars

\* err = eg.Wait(): every goroutine of the group has returned
DependentsWait ==
  /\ drone.part = "dependents"
  /\ drone.pc = "stopping"
  /\ \A name \in DOMAIN drone.stopped : drone.stopped[name] # "pending"
  /\ drone' = [drone EXCEPT
                 !.pc = afterWait(drone.stopped),
                 !.calls = IF afterWait(drone.stopped) = "skipped"
                             THEN Append(@, "failed to ensure dependent containers stopped")
                             ELSE @]
  /\ UNCHANGED vaultVars

\* the archive step: d.runExecBackup or d.runVolumeBackup
DependentsArchive ==
  /\ drone.part = "dependents"
  /\ drone.pc = "archive"
  /\ \E faults \in FaultChoices :
       drone' = [drone EXCEPT
                   !.pc = "archived",
                   !.calls = @ \o (IF drone.job.plan[drone.i].Exec # Nil
                                     THEN containerRunExecBackup(drone.job.plan[drone.i], faults)
                                     ELSE runVolumeBackup(drone.job.plan[drone.i], faults))]
  /\ UNCHANGED vaultVars

NextDependents ==
  \/ DependentsEnsureRunning
  \/ DependentsEnsureStopped
  \/ DependentsWait
  \/ DependentsArchive

SpecDependents == InitDependents /\ [][NextDependents]_vars

\* the calls of the archive step
ArchiveCalls == {"Exec", "ExecWithOutput", "CreateWithInput", "CreateWithPaths"}

\* ------------------------------------------- runVolumeBackup, on strings
\* filepath.IsAbs on a Unix path
IsAbs(p) == Len(p) > 0 /\ p[1] = "/"

\* make([]string, n): n empty strings
MakeStrings(n) == [i \in 1..n |-> <<>>]

\* runVolumeBackup: paths := make([]string, len(backupCtnr.BackupVolumes)),
\* then paths = append(paths, vol.Source) for each volume
volumePaths(volumes) ==
  MakeStrings(Len(volumes)) \o [i \in 1..Len(volumes) |-> volumes[i].Source]

\* borg.Client.CreateWithPaths: the check of the paths, then the archive
\* tool, which ends well or not
CreateWithPaths(paths, borgErr) ==
  IF \E i \in 1..Len(paths) : ~IsAbs(paths[i]) THEN "path is not an absolute path"
  ELSE borgErr

InitVolumes ==
  /\ VaultIdle
  /\ \E volumes \in MountLists :
       drone = [part |-> "volumes", BackupVolumes |-> volumes, pc |-> "called",
                paths |-> <<>>, err |-> NoErr, log |-> <<>>]

\* runVolumeBackup up to its call of CreateWithPaths
VolumesPaths ==
  /\ drone.part = "volumes"
  /\ drone.pc = "called"
  /\ drone' = [drone EXCEPT !.pc = "create", !.paths = volumePaths(drone.BackupVolumes)]
  /\ UNCHANGED vaultVars

\* runVolumeBackup from d.borgClient.CreateWithPaths on
VolumesCreate ==
  /\ drone.part = "volumes"
  /\ drone.pc = "create"
  /\ \E borgErr \in {NoErr, "failed to run borg create with paths"} :
       drone' = [drone EXCEPT
                   !.pc = "returned",
                   !.err = CreateWithPaths(drone.paths, borgErr),
                   !.log = IF CreateWithPaths(drone.paths, borgErr) # NoErr
                             THEN <<"backup failed">> ELSE <<"backup complete">>]
  /\ UNCHANGED vaultVars

NextVolumes ==
  \/ VolumesPaths
  \/ VolumesCreate

SpecVolumes == InitVolumes /\ [][NextVolumes]_vars

\* ------------------------------------------- the snapshots under .bak/
\* backupPath names a snapshot .bak/<uuid>.<millis>.json by the item's id and
\* the millisecond of the wall clock (time.Now().UnixMilli()); the vault model
\* keeps the snapshot that a call writes in the one file Path(".bak", id), and
\* the directory below files it under the name the code gives it.  The clock
\* does not go back, and two calls can read the same millisecond.

NoBakCall == [at |-> -1]

NoBak == [part |-> "none", now |-> 0, files |-> {}, tried |-> {}, call |-> NoBakCall]

Bak == IF drone = NoDrone THEN NoBak ELSE drone

\* the file of the directory that backupPath names at millisecond t
BakNamed(files, id, t) == {f \in files : f.id = id /\ f.t = t}

\* what the copyFile call of writeItemValueUnsafe did in SetItemValue(id, value)
snapshotOf(s, id, value) ==
  IF Len(value) = 0 \/ IsLocked(s) \/ ~MapHas(s.v.items, id) THEN "none"
  ELSE Bind(encryptForRestUnsafe(s, value), LAMBDA e :
         IF Dead(e.s) \/ s.v.items.m[id].checksum = EmptySum THEN "none"
         ELSE IF copyFile(e.s, valuePath(s.v.items.m[id]),
                          backupPath(s.v.items.m[id])).err = NoErr
           THEN "made"
         ELSE "failed")

InitBak == InitVault /\ backend = "bak"

\* SetItemValue at a millisecond of the clock, with failing backend calls
DoSetItemValueAt ==
  /\ proc = "running"
  /\ backend = "bak"
  /\ steps < StepBound
  /\ \E id \in Ids : \E value \in ValueInputs(id) : \E now \in {Bak.now, Bak.now + 1} :
       \E F \in RollbackFaultSets(LAMBDA s : SetItemValue(s, id, value)) :
         Bind(SetItemValue(Machine(F), id, value), LAMBDA r :
           /\ steps' = steps + 1
           /\ disk' = r.s.disk
           /\ vault' = r.s.v
           /\ proc' = r.s.proc
           /\ clean' = (clean /\ F = {} /\ ~Dead(r.s))
           /\ last' = [op |-> "SetItemValue", id |-> id, arg |-> value, err |-> r.err,
                       ret |-> <<>>, calls |-> r.s.n, faulted |-> F # {},
                       wasLocked |-> vault.identityKey = Nil,
                       changed |-> (r.s.disk # disk \/ r.s.v # vault)]
           /\ snap' = NoSnap
           /\ drone' =
                [part |-> "none",
                 now |-> now,
                 files |-> IF snapshotOf(Machine(F), id, value) = "made"
                             THEN (Bak.files \ BakNamed(Bak.files, id, now))
                                    \cup {[id |-> id, t |-> now,
                                           data |-> r.s.disk[Path(".bak", id)]]}
                           ELSE Bak.files,
                 tried |-> Bak.tried \cup {id},
                 call |-> [at |-> steps + 1, id |-> id, now |-> now, before |-> Bak.now,
                           first |-> id \notin Bak.tried,
                           hadValue |-> (MapHas(vault.items, id)
                                           /\ vault.items.m[id].checksum # EmptySum),
                           copy |-> snapshotOf(Machine(F), id, value),
                           existed |-> BakNamed(Bak.files, id, now) # {},
                           age |-> disk[Path(".age", id)],
                           json |-> disk[Path(".json", id)],
                           items |-> vault.items,
                           files |-> Bak.files]])
  /\ UNCHANGED <<build, backend, nextId>>

NextBak ==
  \/ DoUnlock
  \/ DoCreateItem
  \/ DoSetItemValueAt

SpecBak == InitBak /\ [][NextBak]_vars

\* the last operation was a SetItemValue that the directory has on record
BakCase ==
  /\ backend = "bak"
  /\ Bak.call.at = steps
  /\ last.op = "SetItemValue"

\* ------------------------------------------- the worker's docker job ids
\* The scheduler's entries of container projects and Worker.dockerJobIds over
\* a run of project snapshots: first those of the initial listing
\* (ScheduleContainerBackups, whose error ends the process in main), then the
\* watcher's updates (Worker.Run, which logs the error).  scheduleDockerBackup
\* comes in two versions: that of worker.go, and that of the worker beside
\* config.go, which schedules the previous entry again when the new job
\* cannot be built.

\* project snapshots handled in a run
MaxSnapshots == 4

JobProjectNames == {ProjectLabel, "nextcloud"}

\* the snapshots of a project: no container, or the first service's container
JobSnapshots ==
  {[Engine |-> ContainerEngineDocker, ProjectName |-> name,
    Containers |-> [s \in Services |-> IF s = ServiceNames[1] THEN b ELSE NoContainer]] :
     name \in JobProjectNames, b \in MappedContainers[1] \cup {NoContainer}}

NoEntryID == 0

\* cron.Cron.Schedule: the entry is given the next id
cronSchedule(w, name, job) ==
  [w EXCEPT !.entries = @ \cup {[id |-> w.nextID + 1, name |-> name, job |-> job]},
            !.nextID = @ + 1,
            !.dockerJobIds[name] = w.nextID + 1]

\* cron.Cron.Remove(jobId) with the id left in w.dockerJobIds
cronRemoveKeepingId(w, name) ==
  [w EXCEPT !.entries = {e \in @ : e.id # w.dockerJobIds[name]},
            !.removed = @ \cup {w.dockerJobIds[name]}]

\* cron.Cron.Remove(jobId) followed by delete(w.dockerJobIds, name)
cronRemove(w, name) ==
  [w EXCEPT !.entries = {e \in @ : e.id # w.dockerJobIds[name]},
            !.removed = @ \cup {w.dockerJobIds[name]},
            !.dockerJobIds[name] = NoEntryID]

\* lines 192-202 of worker.go: the project's entry is taken off the scheduler
unschedule(w, name) ==
  IF w.dockerJobIds[name] # NoEntryID THEN cronRemove(w, name) ELSE w

\* Worker.scheduleDockerBackup of worker.go on the worker's books w
scheduleDockerBackupOn(w, cbp, built) ==
  Bind(unschedule(w, cbp.ProjectName), LAMBDA u :
    IF Keys(cbp) = {} THEN [w |-> u, err |-> NoErr, panic |-> FALSE]
    ELSE IF built.panic THEN [w |-> u, err |-> NoErr, panic |-> TRUE]
    ELSE IF built.err # NoErr THEN [w |-> u, err |-> built.err, panic |-> FALSE]
    ELSE [w |-> cronSchedule(u, cbp.ProjectName, built.job), err |-> NoErr, panic |-> FALSE])

\* Worker.scheduleDockerBackup of the worker beside config.go
scheduleDockerBackupRestoring(w, cbp, built) ==
  Bind(unschedule(w, cbp.ProjectName), LAMBDA u :
    IF Keys(cbp) = {} THEN [w |-> u, err |-> NoErr, panic |-> FALSE]
    ELSE IF built.panic THEN [w |-> u, err |-> NoErr, panic |-> TRUE]
    ELSE IF built.err # NoErr
      THEN [w |-> IF w.dockerJobIds[cbp.ProjectName] # NoEntryID
                    THEN cronSchedule(u, cbp.ProjectName,
                           (CHOOSE e \in w.entries :
                              e.id = w.dockerJobIds[cbp.ProjectName]).job)
                  ELSE u,
            err |-> built.err, panic |-> FALSE]
    ELSE [w |-> cronSchedule(u, cbp.ProjectName, built.job), err |-> NoErr, panic |-> FALSE])

NoBooks ==
  [entries |-> {}, nextID |-> 0, removed |-> {},
   dockerJobIds |-> [name \in JobProjectNames |-> NoEntryID]]

InitJobs ==
  /\ VaultIdle
  /\ \E version \in {"worker.go", "config.go"} :
       drone = [part |-> "jobs", version |-> version, w |-> NoBooks, handled |-> 0,
                state |-> "listing", cbp |-> NoProject, err |-> NoErr]

\* what a call of scheduleDockerBackup leaves of the run
jobsAfter(d, cbp, r, onError) ==
  [d EXCEPT !.w = r.w, !.handled = @ + 1, !.cbp = cbp, !.err = r.err,
            !.state = IF r.panic THEN "panic"
                      ELSE IF r.err # NoErr THEN onError ELSE d.state]

\* Worker.scheduleDockerBackup of worker.go, called for a project of the
\* initial listing or for a watcher update
JobsSchedule ==
  /\ drone.part = "jobs"
  /\ drone.version = "worker.go"
  /\ drone.state \in {"listing", "watching"}
  /\ drone.handled < MaxSnapshots
  /\ \E cbp \in JobSnapshots : \E order \in Iterations(Keys(cbp)) :
       drone' = jobsAfter(drone, cbp,
                  scheduleDockerBackupOn(drone.w, cbp,
                    newContainerProjectBackupJob(cbp, order, order)),
                  IF drone.state = "listing" THEN "fatal" ELSE "watching")
  /\ UNCHANGED vaultVars

\* the same for the version that restores the previous entry
JobsScheduleRestoring ==
  /\ drone.part = "jobs"
  /\ drone.version = "config.go"
  /\ drone.state \in {"listing", "watching"}
  /\ drone.handled < MaxSnapshots
  /\ \E cbp \in JobSnapshots : \E order \in Iterations(Keys(cbp)) :
       drone' = jobsAfter(drone, cbp,
                  scheduleDockerBackupRestoring(drone.w, cbp,
                    newContainerProjectBackupJob(cbp, order, order)),
                  IF drone.state = "listing" THEN "fatal" ELSE "watching")
  /\ UNCHANGED vaultVars

\* main goes on from ScheduleContainerBackups to Worker.Run
JobsRun ==
  /\ drone.part = "jobs"
  /\ drone.state = "listing"
  /\ drone' = [drone EXCEPT !.state = "watching"]
  /\ UNCHANGED vaultVars

NextJobs ==
  \/ JobsSchedule
  \/ JobsScheduleRestoring
  \/ JobsRun

SpecJobs == InitJobs /\ [][NextJobs]_vars

\* the entries that the scheduler holds for a project
JobEntriesOf(d, name) == {e \in d.w.entries : e.name = name}

\* ------------------------------------- the watch's channels, by statements
\* The goroutine of Client.Watch and Worker.Run, one statement at a step.
\* updates and err are unbuffered: a send waits for Run's select to receive,
\* and a send on a closed channel, like a second close, is a run-time panic of
\* the whole process.  Run returns through its deferred calls, last deferred
\* first: scheduler.Stop, dockerWatch.Close, w.ctxCancel.  Only that
\* w.ctxCancel cancels the context.  The daemon's error channel holds an error
\* once the daemon fails or the context is cancelled, and is closed after it.

\* events that the daemon reports in a run
MaxWatchEvents == 2

NoPanic == "none"

InitChannels ==
  /\ VaultIdle
  /\ drone = [part |-> "channels", watch |-> "select", run |-> "select",
              updates |-> "open", err |-> "open", ctx |-> "live", errChan |-> "open",
              events |-> 0, cause |-> "none", panic |-> NoPanic, sent |-> "none"]

\* both goroutines run
ChannelsLive(d) == d.part = "channels" /\ d.panic = NoPanic /\ d.run # "exited"

\* close(ch) of the channel named ch by the goroutine who, which goes on at next
closeChannel(d, who, ch, next) ==
  IF d[ch] = "closed" THEN [d EXCEPT !.panic = "close of closed channel"]
  ELSE [d EXCEPT ![ch] = "closed", ![who] = next]

\* case event, ok := <-dockerEvents, with ok: handleEvent returns a project,
\* an error, or neither
WatchReceivesEvent ==
  /\ ChannelsLive(drone)
  /\ drone.watch = "select"
  /\ drone.events < MaxWatchEvents
  /\ \E next \in {"send update", "send error", "select"} :
       drone' = [drone EXCEPT !.watch = next, !.events = @ + 1]
  /\ UNCHANGED vaultVars

\* case event, ok := <-dockerEvents, with !ok
WatchEventsClosed ==
  /\ ChannelsLive(drone)
  /\ drone.watch = "select"
  /\ drone.events < MaxWatchEvents
  /\ drone' = [drone EXCEPT !.watch = "send error, close", !.events = @ + 1]
  /\ UNCHANGED vaultVars

\* the daemon's connection fails, or ends with the context
DaemonFails ==
  /\ ChannelsLive(drone)
  /\ drone.errChan = "open"
  /\ drone' = [drone EXCEPT !.errChan = "error"]
  /\ UNCHANGED vaultVars

\* case eventsErr, ok := <-errChan, with ok
WatchEventsError ==
  /\ ChannelsLive(drone)
  /\ drone.watch = "select"
  /\ drone.errChan = "error"
  /\ drone' = [drone EXCEPT !.watch = "send error", !.errChan = "closed"]
  /\ UNCHANGED vaultVars

\* case eventsErr, ok := <-errChan, with !ok: the goroutine returns
WatchEventsGone ==
  /\ ChannelsLive(drone)
  /\ drone.watch = "select"
  /\ drone.errChan = "closed"
  /\ drone' = [drone EXCEPT !.watch = "done"]
  /\ UNCHANGED vaultVars

\* case <-ctx.Done()
WatchCtxDone ==
  /\ ChannelsLive(drone)
  /\ drone.watch = "select"
  /\ drone.ctx = "done"
  /\ drone' = [drone EXCEPT !.watch = "send error, close"]
  /\ UNCHANGED vaultVars

\* watch.updates <- *project, received by case proj := <-dockerUpdates
WatchSendsUpdate ==
  /\ ChannelsLive(drone)
  /\ drone.watch = "send update"
  /\ \/ /\ drone.updates = "closed"
        /\ drone' = [drone EXCEPT !.panic = "send on closed channel", !.sent = "updates"]
     \/ /\ drone.updates = "open"
        /\ drone.run = "select"
        /\ drone' = [drone EXCEPT !.watch = "select", !.sent = "updates"]
  /\ UNCHANGED vaultVars

\* watch.err <- err, received by case err = <-dockerErrors: Run returns err
WatchSendsError ==
  /\ ChannelsLive(drone)
  /\ drone.watch \in {"send error", "send error, close"}
  /\ \/ /\ drone.err = "closed"
        /\ drone' = [drone EXCEPT !.panic = "send on closed channel", !.sent = "err"]
     \/ /\ drone.err = "open"
        /\ drone.run = "select"
        /\ drone' = [drone EXCEPT !.watch = IF drone.watch = "send error" THEN "select"
                                            ELSE "close updates",
                                  !.run = "close updates", !.cause = "watch error",
                                  !.sent = "err"]
  /\ UNCHANGED vaultVars

\* _ = watch.Close() of the goroutine: close(w.updates)
WatchClosesUpdates ==
  /\ ChannelsLive(drone)
  /\ drone.watch = "close updates"
  /\ drone' = closeChannel(drone, "watch", "updates", "close err")
  /\ UNCHANGED vaultVars

\* _ = watch.Close() of the goroutine: close(w.err), and return
WatchClosesErr ==
  /\ ChannelsLive(drone)
  /\ drone.watch = "close err"
  /\ drone' = closeChannel(drone, "watch", "err", "done")
  /\ UNCHANGED vaultVars

\* case err = <-configWatch.Errors(): Run returns err
RunConfigError ==
  /\ ChannelsLive(drone)
  /\ drone.run = "select"
  /\ drone' = [drone EXCEPT !.run = "close updates", !.cause = "config-watch error"]
  /\ UNCHANGED vaultVars

\* the deferred dockerWatch.Close(): close(w.updates)
RunClosesUpdates ==
  /\ ChannelsLive(drone)
  /\ drone.run = "close updates"
  /\ drone' = closeChannel(drone, "run", "updates", "close err")
  /\ UNCHANGED vaultVars

\* the deferred dockerWatch.Close(): close(w.err)
RunClosesErr ==
  /\ ChannelsLive(drone)
  /\ drone.run = "close err"
  /\ drone' = closeChannel(drone, "run", "err", "cancel")
  /\ UNCHANGED vaultVars

\* the deferred w.ctxCancel(); Run has returned
RunCancels ==
  /\ ChannelsLive(drone)
  /\ drone.run = "cancel"
  /\ drone' = [drone EXCEPT !.run = "returned", !.ctx = "done",
                            !.errChan = IF @ = "open" THEN "error" ELSE @]
  /\ UNCHANGED vaultVars

\* main ends the process after Run returned
ProcessExits ==
  /\ ChannelsLive(drone)
  /\ drone.run = "returned"
  /\ drone' = [drone EXCEPT !.run = "exited"]
  /\ UNCHANGED vaultVars

NextChannels ==
  \/ WatchReceivesEvent
  \/ WatchEventsClosed
  \/ DaemonFails
  \/ WatchEventsError
  \/ WatchEventsGone
  \/ WatchCtxDone
  \/ WatchSendsUpdate
  \/ WatchSendsError
  \/ WatchClosesUpdates
  \/ WatchClosesErr
  \/ RunConfigError
  \/ RunClosesUpdates
  \/ RunClosesErr
  \/ RunCancels
  \/ ProcessExits

SpecChannels == InitChannels /\ [][NextChannels]_vars

\* ------------------------------------------- the schedules of static jobs
\* LoadConfig of a configuration file with up to MaxBackups [[Backups]]
\* tables, and the static jobs that ScheduleStaticBackups registers for what
\* LoadConfig returned: at startup (main) and for every update that the
\* config watch sends (Worker.Run).  The decoder leaves the unexported field
\* scheduleParsed nil.  The scheduler computes entry.Schedule.Next(now) for
\* an entry when it starts and, once it runs, when an entry is added: with a
\* nil schedule that is a nil dereference in the scheduler's goroutine.
MaxBackups == 2

\* configurations loaded after startup
MaxReloads == 3

ScheduleValues == {WhenLabel, "@hourly", "never"}
StaticNames == <<"etc", "home">>

\* cron.ParseStandard
ParseStandard(value) ==
  IF value \in {WhenLabel, "@hourly"}
    THEN [schedule |-> [k |-> "schedule", spec |-> value], err |-> NoErr]
  ELSE [schedule |-> Nil, err |-> "failed to parse"]

\* conf.Backups as decoded from the file
DecodedBackups ==
  UNION {[1..n -> [Name : {StaticNames[i] : i \in 1..MaxBackups},
                   ScheduleValue : ScheduleValues, scheduleParsed : {Nil}]]
         : n \in 0..MaxBackups}

\* the loop  for _, backup := range conf.Backups  of LoadConfig from the i-th
\* backup on: backup is a copy of conf.Backups[i], and the assignment to
\* backup.scheduleParsed changes the copy
RECURSIVE loadBackups(_, _)
loadBackups(backups, i) ==
  IF i > Len(backups) THEN [backups |-> backups, err |-> NoErr]
  ELSE Bind(ParseStandard(backups[i].ScheduleValue), LAMBDA parsed :
         IF parsed.err # NoErr THEN [backups |-> <<>>, err |-> "invalid backup schedule"]
         ELSE Bind([backups[i] EXCEPT !.scheduleParsed = parsed.schedule], LAMBDA backup :
                loadBackups(backups, i + 1)))

\* BackupConfig.Schedule
BackupSchedule(bc) == bc.scheduleParsed

\* the loop of ScheduleStaticBackups over backups from the i-th on
RECURSIVE scheduleStatic(_, _, _)
scheduleStatic(w, backups, i) ==
  IF i > Len(backups) THEN w
  ELSE scheduleStatic(
         [w EXCEPT !.entries = @ \cup {[id |-> w.nextID + 1, backup |-> backups[i],
                                        schedule |-> BackupSchedule(backups[i])]},
                   !.nextID = @ + 1,
                   !.staticJobIds = Append(@, w.nextID + 1)],
         backups, i + 1)

\* Worker.ScheduleStaticBackups
ScheduleStaticBackups(w, backups) ==
  scheduleStatic([w EXCEPT !.entries = {e \in @ : \A k \in 1..Len(w.staticJobIds) :
                                                     e.id # w.staticJobIds[k]},
                           !.staticJobIds = <<>>],
                 backups, 1)

InitSchedules ==
  /\ VaultIdle
  /\ drone = [part |-> "schedules", state |-> "main", reloads |-> 0, loaded |-> <<>>,
              err |-> NoErr,
              w |-> [entries |-> {}, nextID |-> 0, staticJobIds |-> <<>>]]

\* main: LoadConfig, whose error is fatal, then ScheduleStaticBackups
SchedulesStartup ==
  /\ drone.part = "schedules"
  /\ drone.state = "main"
  /\ \E decoded \in DecodedBackups :
       Bind(loadBackups(decoded, 1), LAMBDA r :
         drone' = IF r.err # NoErr
                    THEN [drone EXCEPT !.state = "fatal", !.err = r.err]
                  ELSE [drone EXCEPT !.state = "scheduled", !.loaded = r.backups,
                                     !.w = ScheduleStaticBackups(drone.w, r.backups)])
  /\ UNCHANGED vaultVars

\* Worker.Run: scheduler.Start()
SchedulesStart ==
  /\ drone.part = "schedules"
  /\ drone.state = "scheduled"
  /\ drone' = [drone EXCEPT !.state = IF \E e \in drone.w.entries : e.schedule = Nil
                                        THEN "panic" ELSE "running"]
  /\ UNCHANGED vaultVars

\* the config watch loads the changed file and sends what LoadConfig returned;
\* Worker.Run calls ScheduleStaticBackups with it
SchedulesUpdate ==
  /\ drone.part = "schedules"
  /\ drone.state = "running"
  /\ drone.reloads < MaxReloads
  /\ \E decoded \in DecodedBackups :
       Bind(loadBackups(decoded, 1), LAMBDA r :
         drone' = IF r.err # NoErr
                    THEN [drone EXCEPT !.reloads = @ + 1, !.err = r.err]
                  ELSE [drone EXCEPT
                          !.reloads = @ + 1, !.err = NoErr, !.loaded = r.backups,
                          !.w = ScheduleStaticBackups(drone.w, r.backups),
                          !.state = IF \E i \in 1..Len(r.backups) :
                                         BackupSchedule(r.backups[i]) = Nil
                                      THEN "panic" ELSE "running"])
  /\ UNCHANGED vaultVars

NextSchedules ==
  \/ SchedulesStartup
  \/ SchedulesStart
  \/ SchedulesUpdate

SpecSchedules == InitSchedules /\ [][NextSchedules]_vars

\* the dependency relation of a project: <<a, b>> when the container of
\* service a names service b in its Dependencies, and what it reaches
DependsOn(project) ==
  {e \in Keys(project) \X Keys(project) : e[2] \in project.Containers[e[1]].Dependencies}

RECURSIVE Reaches(_, _)
Reaches(R, n) ==
  IF n = 0 THEN R
  ELSE Reaches(R \cup {<<q[1][1], q[2][2]>> : q \in {p \in R \X R : p[1][2] = p[2][1]}}, n - 1)

HasCycle(project) ==
  \E name \in Keys(project) : <<name, name>> \in Reaches(DependsOn(project), MaxContainers)

\* ------------------------------------------------------------------ claims
\* C1 (round trip): in the state a successful SetItemValue(I, P) leaves,
\* GetItem(I) returns exactly P and the checksum of I in the item map and in
\* <uuid>.json is the SHA-256 of P; it holds after every write, so after
\* several writes it holds for the last P.
C1_RoundTrip ==
  (last.op = "SetItemValue" /\ last.err = NoErr) =>
    /\ proc = "running"
    /\ Bind(GetItem(Machine({}), last.id), LAMBDA r :
         r.err = NoErr /\ r.value = <<last.arg>>)
    /\ MapHas(vault.items, last.id)
    /\ vault.items.m[last.id].checksum = sum(last.arg)
    /\ disk[Path(".json", last.id)].k = "json"
    /\ disk[Path(".json", last.id)].item.checksum = sum(last.arg)

\* C1 witness: a value was written over an earlier, different value and is
\* read back
C1_Witness ==
  /\ last.op = "SetItemValue" /\ last.err = NoErr
  /\ disk[Path(".bak", last.id)].k = "age"
  /\ disk[Path(".bak", last.id)].pt # last.arg
  /\ GetItem(Machine({}), last.id).value = <<last.arg>>

\* C2 (peer pinning): a GetItemForPeer(I, A) that returns without error on an
\* item with no peer records A in the item map and in <uuid>.json; on an item
\* pinned to A, GetItemForPeer(I, B) with B # A fails with the peer-mismatch
\* error, returns no value and changes neither the item map nor the disk.
C2_PeerPinning ==
  [][(last'.op = "GetItemForPeer" /\ vault.identityKey # Nil
        /\ MapHas(vault.items, last'.id)) =>
       /\ (vault.items.m[last'.id].peer = NoPeer /\ last'.err = NoErr) =>
            /\ MapHas(vault'.items, last'.id)
            /\ vault'.items.m[last'.id].peer = last'.arg
            /\ disk'[Path(".json", last'.id)].k = "json"
            /\ disk'[Path(".json", last'.id)].item.peer = last'.arg
       /\ (vault.items.m[last'.id].peer \notin {NoPeer, last'.arg}) =>
            /\ last'.err = "client credentials mismatch"
            /\ last'.ret = NoBuf
            /\ vault' = vault
            /\ disk' = disk
            /\ disk[Path(".json", last'.id)].k = "json" =>
                 disk'[Path(".json", last'.id)].item.peer = vault.items.m[last'.id].peer]_vars

\* C2 witness: an item that holds a value and is pinned to the first peer
\* has just refused the second peer
C2_Witness ==
  /\ last.op = "GetItemForPeer" /\ last.err = "client credentials mismatch"
  /\ last.arg = "10.0.0.2"
  /\ MapHas(vault.items, last.id)
  /\ vault.items.m[last.id].peer = "10.0.0.1"
  /\ disk[Path(".json", last.id)].k = "json"
  /\ disk[Path(".json", last.id)].item.peer = "10.0.0.1"
  /\ vault.items.m[last.id].checksum # EmptySum

\* C3 (value integrity), as stated: GetItem(I) on an unlocked vault whose
\* <uuid>.age was corrupted on disk returns to its caller with an error and no
\* plaintext, the vault stays unlocked and unchanged, and <uuid>.json is
\* unchanged.
C3_CorruptValueIsReturned ==
  [][(last'.op = "GetItem" /\ vault.identityKey # Nil
        /\ MapHas(vault.items, last'.id)
        /\ vault.items.m[last'.id].checksum # EmptySum
        /\ disk[Path(".age", last'.id)] = Garbage) =>
       /\ proc' = "running"
       /\ last'.err \notin {NoErr, "fatal", "panic"}
       /\ last'.ret = NoBuf
       /\ vault' = vault
       /\ disk'[Path(".json", last'.id)] = disk[Path(".json", last'.id)]]_vars

\* C4 (Unlock leaves no partial state), as stated: whenever Unlock returns an
\* error the vault is locked, with no identity key, no metadata secret, no
\* primary recipient and no item map.
C4_UnlockErrorLeavesLocked ==
  (last.op = "Unlock" /\ last.err # NoErr /\ proc = "running") =>
    /\ IsLocked(Machine({}))
    /\ vault = NilVault

\* C5 (re-unlock), as stated: after operations that all went well and a Lock,
\* Unlock with another passphrase fails with the auth error and leaves the
\* vault locked, and Unlock with the original passphrase succeeds, after which
\* Items and GetItem return what they returned before the Lock.
C5_ReUnlock ==
  (last.op = "Unlock" /\ last.wasLocked /\ clean /\ snap # NoSnap) =>
    /\ last.arg # FirstPassphrase =>
         (last.err = "failed to verify passphrase" /\ vault = NilVault)
    /\ last.arg = FirstPassphrase =>
         (last.err = NoErr /\ View(Machine({})) = snap)

C7_CorruptMetadataIsDropped ==
  (/\ last.op = "Unlock" /\ last.wasLocked /\ last.arg = FirstPassphrase
   /\ proc = "running"
   /\ \E id \in Ids : disk[Path(".json", id)] = Garbage
   /\ \A id \in Ids : disk[Path(".age", id)] # Garbage) =>
    /\ last.err = NoErr
    /\ \A id \in Ids :
         /\ disk[Path(".json", id)] = Garbage => ~MapHas(vault.items, id)
         /\ disk[Path(".json", id)].k = "json" =>
              (MapHas(vault.items, id) /\ GetItem(Machine({}), id).err = NoErr)

\* C8 (locked vault), as stated: on a locked vault Lock, Items, CreateItem,
\* SetItemValue, GetItem, GetItemForPeer, DeleteItem, SetRecoveryRecipient
\* and VerifyPassphrase fail with the vault-locked error and change neither
\* the vault nor the disk, and the locked vault holds no enclave and no map.
C8_LockedVaultRefuses ==
  [][(vault.identityKey = Nil
        /\ last'.op \in {"Lock", "Items", "CreateItem", "SetItemValue", "GetItem",
                         "GetItemForPeer", "DeleteItem", "SetRecoveryRecipient",
                         "VerifyPassphrase"}) =>
       /\ last'.err = "vault is locked"
       /\ vault' = vault
       /\ vault' = NilVault
       /\ disk' = disk]_vars

\* C9 (passphrase isolation): VerifyPassphrase on an unlocked vault makes no
\* call to the storage backend and changes neither the vault (which stays
\* unlocked, with its item map and enclaves) nor the disk, so a later
\* operation starts from the state it would have started from without it;
\* with a candidate other than the passphrase that unlocked the vault it
\* returns an error.
C9_VerifyPassphraseIsolated ==
  [][(last'.op = "VerifyPassphrase" /\ vault.identityKey # Nil) =>
       /\ last'.calls = 0
       /\ vault' = vault
       /\ disk' = disk
       /\ proc' = "running"
       /\ vault.identityKey # Enclave(deriveKey(last'.arg)) => last'.err # NoErr]_vars

\* C9 witness: a wrong candidate was refused on an unlocked vault that holds
\* an item with a value
C9_Witness ==
  /\ last.op = "VerifyPassphrase" /\ last.arg = "wrong" /\ last.err # NoErr
  /\ ~last.wasLocked
  /\ vault.identityKey # Nil
  /\ \E id \in Ids : MapHas(vault.items, id) /\ vault.items.m[id].checksum # EmptySum

\* C10 (delete idempotence): with every backend call succeeding, DeleteItem(I)
\* on an unlocked vault succeeds; if I was in the item map it is removed from
\* it and <uuid>.json and <uuid>.age are removed; if I was not in the map (a
\* second DeleteItem(I), an unknown id) nothing changes.
C10_DeleteIdempotent ==
  [][(last'.op = "DeleteItem" /\ vault.identityKey # Nil) =>
       /\ last'.err = NoErr
       /\ proc' = "running"
       /\ ~MapHas(vault'.items, last'.id)
       /\ MapHas(vault.items, last'.id) =>
            /\ disk'[Path(".json", last'.id)] = Absent
            /\ disk'[Path(".age", last'.id)] = Absent
            /\ vault' = [vault EXCEPT !.items = MapDel(@, last'.id)]
       /\ ~MapHas(vault.items, last'.id) => (vault' = vault /\ disk' = disk)]_vars

\* C10 witness: an item that was created and deleted is deleted a second
\* time, which changes nothing
C10_Witness ==
  /\ last.op = "DeleteItem" /\ last.err = NoErr /\ ~last.wasLocked /\ ~last.changed
  /\ last.id < nextId
  /\ disk[Path(".json", last.id)] = Absent
  /\ disk[Path(".age", last.id)] = Absent
  /\ ~MapHas(vault.items, last.id)

\* C11 (checksum/value consistency), as stated: between operations, also
\* after an operation that returned an error because a backend write failed,
\* every item (of the item map, and of the metadata on disk) whose files were
\* not damaged from outside either has a <uuid>.age whose plaintext hashes to
\* its checksum, or has an empty checksum and no value file.
C11_ChecksumMatchesValue ==
  \A id \in Ids :
    (disk[Path(".age", id)] # Garbage /\ disk[Path(".json", id)] # Garbage) =>
      /\ MapHas(vault.items, id) =>
           IF vault.items.m[id].checksum = EmptySum
             THEN disk[Path(".age", id)] = Absent
             ELSE /\ disk[Path(".age", id)].k = "age"
                  /\ sum(disk[Path(".age", id)].pt) = vault.items.m[id].checksum
      /\ disk[Path(".json", id)].k = "json" =>
           IF disk[Path(".json", id)].item.checksum = EmptySum
             THEN disk[Path(".age", id)] = Absent
             ELSE /\ disk[Path(".age", id)].k = "age"
                  /\ sum(disk[Path(".age", id)].pt) = disk[Path(".json", id)].item.checksum

\* C12 (peer stability): no operation other than DeleteItem of the item
\* changes or clears a peer once it is set: an item of the item map keeps its
\* peer for as long as it is in the map, the peer in <uuid>.json stays what it
\* is, and a successful Unlock loads an item with the peer its metadata holds
\* (every item, when no backend call failed).
C12_PeerStable ==
  [][(last'.op \in {"Unlock", "VerifyPassphrase", "Lock", "Items", "CreateItem",
                    "SetItemValue", "GetItem", "GetItemForPeer", "DeleteItem",
                    "SetRecoveryRecipient"}) =>
       \A id \in Ids :
         (last'.op = "DeleteItem" /\ last'.id = id) \/
           (/\ (MapHas(vault.items, id) /\ vault.items.m[id].peer # NoPeer
                  /\ MapHas(vault'.items, id)) =>
                 vault'.items.m[id].peer = vault.items.m[id].peer
            /\ (disk[Path(".json", id)].k = "json"
                  /\ disk[Path(".json", id)].item.peer # NoPeer) =>
                 (disk'[Path(".json", id)].k = "json"
                    /\ disk'[Path(".json", id)].item.peer = disk[Path(".json", id)].item.peer)
            /\ (last'.op = "Unlock" /\ last'.wasLocked /\ last'.err = NoErr
                  /\ disk[Path(".json", id)].k = "json") =>
                 /\ MapHas(vault'.items, id) =>
                      vault'.items.m[id].peer = disk[Path(".json", id)].item.peer
                 /\ ~last'.faulted => MapHas(vault'.items, id))]_vars

\* C12 witness: SetRecoveryRecipient has re-encrypted the value of an item
\* that is pinned to a peer, and the peer is still there
C12_Witness ==
  /\ last.op = "SetRecoveryRecipient" /\ last.err = NoErr
  /\ \E id \in Ids :
       /\ MapHas(vault.items, id)
       /\ vault.items.m[id].peer = "10.0.0.1"
       /\ disk[Path(".json", id)].k = "json"
       /\ disk[Path(".json", id)].item.peer = "10.0.0.1"
       /\ disk[Path(".bak", id)].k = "age"
       /\ disk[Path(".age", id)].k = "age"
       /\ RecoveryRcpt(last.arg) \in disk[Path(".age", id)].rcpts

\* C13 (recovery files), as stated: whenever a vault operation has returned,
\* also a SetRecoveryRecipient that failed while writing either file,
\* .recovery exists if and only if .recovery.sum exists and is the hash of
\* that recipient under the metadata secret.
C13_RecoveryFilesAgree ==
  proc = "running" =>
    /\ disk[Path(".recovery", 0)] = Absent => disk[Path(".recovery.sum", 0)] = Absent
    /\ disk[Path(".recovery", 0)] # Absent =>
         /\ ParsesAsRecipient(disk[Path(".recovery", 0)])
         /\ disk[Path(".recovery.sum", 0)] =
              HexSum(createRecoveryHash(disk[Path(".recovery", 0)].text,
                                        deriveMetadataHmacSecret(TheIdentity).data))

\* C14 (the recovery key is verified before each use), as stated: whatever
\* the vault is asked to do, no value file is ever encrypted to a recipient
\* that a party without the metadata secret put into .recovery.
C14_OnlyInstalledRecoveryRecipient ==
  \A id \in Ids :
    disk[Path(".age", id)].k = "age" =>
      RecoveryRcpt(AttackerRecipient) \notin disk[Path(".age", id)].rcpts

\* C15: in the plan of every accepted project whose dependency relation has no
\* cycle, a container that declares service B as a dependency is placed
\* before the container of B, whatever order the containers were collected in.
C15_DependentsBeforeDependencies ==
  (drone.part = "worker" /\ drone.job # NoJob /\ ~HasCycle(drone.job.project)) =>
    \A i, j \in 1..Len(drone.job.plan) :
      drone.job.plan[j].ServiceName \in drone.job.plan[i].Dependencies => i < j

\* C16: in the plan of every accepted project whose dependency relation has no
\* cycle, of two containers neither of which declares the other as a
\* dependency the one with the lower mode (default < dependent-offline <
\* offline) comes first.
C16_LowerModeFirst ==
  (drone.part = "worker" /\ drone.job # NoJob /\ ~HasCycle(drone.job.project)) =>
    \A i, j \in 1..Len(drone.job.plan) :
      (/\ drone.job.plan[j].ServiceName \notin drone.job.plan[i].Dependencies
       /\ drone.job.plan[i].ServiceName \notin drone.job.plan[j].Dependencies
       /\ drone.job.plan[i].Mode < drone.job.plan[j].Mode) => i < j

\* C17: scheduling a project whose dependency relation contains a cycle (a
\* service that depends on itself included) returns an error and leaves no
\* job scheduled for it.
C17_CyclesRejected ==
  (drone.part = "worker" /\ drone.state = "scheduled" /\ HasCycle(drone.project)) =>
    (drone.err # NoErr /\ drone.job = NoJob)

\* C18: every container of the project that an event hands on, and of the
\* cached projects, has a non-empty service name, not both exec and backup
\* volumes, exec only when its mode is not offline, and an exec with exactly
\* one of stdout and a non-empty path list; an update of an enabled container
\* of a valid project whose labels break one of these is rejected: it hands
\* on no project and leaves the cache as it was.
C18_DiscoveryInvariants ==
  drone.part = "docker" =>
    /\ \A name \in Services :
         /\ (drone.project # NoProject /\ drone.project.Containers[name] # NoContainer) =>
              /\ DiscoveryInvariants(drone.project.Containers[name])
              /\ drone.project.Containers[name].ServiceName = name
         /\ \A p \in ProjectNames :
              (drone.cache[p] # NoProject /\ drone.cache[p].Containers[name] # NoContainer) =>
                DiscoveryInvariants(drone.cache[p].Containers[name])
    /\ (drone.event.op = "update" /\ drone.event.breaks) =>
         (drone.project = NoProject /\ ~drone.changed)

\* the second event, an update of a container whose labels name the mode
\* offline and break a check, was rejected while the cache holds a container
\* with an exec
C18_Witness ==
  /\ drone.part = "docker"
  /\ drone.events = 2
  /\ drone.event.op = "update"
  /\ drone.event.breaks
  /\ drone.event.mode = "offline"
  /\ drone.project = NoProject
  /\ drone.cache[ProjectLabel] # NoProject
  /\ drone.cache[ProjectLabel].Containers["db"] # NoContainer
  /\ drone.cache[ProjectLabel].Containers["db"].Exec # Nil
  /\ drone.cache[ProjectLabel].Containers["db"].Mode = BackupModeDependentOffline

\* C19: in every run of a static backup job, when the pre-command failed
\* neither the body (exec, archive) nor the post-command runs; the
\* post-command runs only after the body ran and returned no error, the
\* pre-command, if any, having succeeded; the finally-command runs at most
\* once, never before another command, and when the run has returned it has
\* run exactly once if it is configured and not at all if it is not.
C19_StaticCommandOrder ==
  drone.part = "static" =>
    /\ drone.pre \notin {"skipped", NoErr} =>
         /\ Positions(drone.log, "exec") = {}
         /\ Positions(drone.log, "archive") = {}
         /\ Positions(drone.log, "post-command") = {}
    /\ Positions(drone.log, "post-command") # {} =>
         /\ drone.pre \in {"skipped", NoErr}
         /\ drone.body = NoErr
         /\ Positions(drone.log, "archive") # {}
    /\ Positions(drone.log, "pre-command") \subseteq {1}
    /\ Cardinality(Positions(drone.log, "post-command")) <= 1
    /\ \A i \in Positions(drone.log, "post-command") :
         \A j \in Positions(drone.log, "exec") \cup Positions(drone.log, "archive") : j < i
    /\ Positions(drone.log, "finally-command") \subseteq {Len(drone.log)}
    /\ Positions(drone.log, "finally-command") # {} => drone.pc = "done"
    /\ drone.pc = "done" =>
         (Positions(drone.log, "finally-command") # {} <=> Len(drone.backup.FinallyCommand) > 0)

\* a run whose pre-command failed has returned after the finally-command
C19_Witness ==
  /\ drone.part = "static"
  /\ drone.pc = "done"
  /\ drone.backup.Exec # Nil
  /\ Len(drone.backup.PostCommand) > 0
  /\ drone.pre = "exit status 1"
  /\ drone.log = <<"pre-command", "finally-command">>

\* C20: when a run of a project's job has returned, whatever the plan loop
\* archived, ensure-running was called once for every container the project
\* had when the calls were started, and none of the calls is still running.
C20_RestartAfterBackup ==
  (drone.part = "job" /\ drone.pc = "done") =>
    /\ drone.pending = {}
    /\ \A name \in drone.spawned : \E id \in ContainerIDs : drone.ensured[id] = 1
    /\ Cardinality({id \in ContainerIDs : drone.ensured[id] = 1}) = Cardinality(drone.spawned)
    /\ \A id \in ContainerIDs : drone.ensured[id] <= 1

C22_PathResolution ==
  (drone.part = "paths" /\ drone.pc = "returned") =>
    /\ ~drone.result.panic
    /\ IF \E i \in 1..Len(drone.ctnr.AllVolumes) :
            StringsHasPrefix(ToLower(drone.cPath), ToLower(drone.ctnr.AllVolumes[i].Destination))
         THEN /\ drone.result.found
              /\ \E i \in 1..Len(drone.ctnr.AllVolumes) :
                   /\ StringsHasPrefix(ToLower(drone.cPath),
                                       ToLower(drone.ctnr.AllVolumes[i].Destination))
                   /\ drone.result.path =
                        Join(drone.ctnr.AllVolumes[i].Source,
                             SubSeq(drone.cPath, Len(drone.ctnr.AllVolumes[i].Destination) + 1,
                                    Len(drone.cPath)))
       ELSE IF /\ drone.ctnr.UpperDirPath # <<>>
               /\ StringsHasPrefix(ToLower(drone.cPath), ToLower(drone.ctnr.UpperDirPath))
         THEN drone.result.found /\ drone.result.path = Join(drone.ctnr.UpperDirPath, drone.cPath)
       ELSE ~drone.result.found

\* C23: no scheduled job has two invocations running at once: a tick that
\* falls while the job's previous invocation has not returned is skipped; and
\* a panic of a job body leaves the scheduler running and the job, like every
\* other job that is not running, ready to be started by its next tick.
C23_SkipIfStillRunning ==
  drone.part = "cron" =>
    /\ drone.scheduler = "running"
    /\ \A j \in JobSlots :
         /\ drone.entries[j].running <= 1
         /\ drone.entries[j].running = 0 <=> drone.entries[j].token
         /\ drone.entries[j].started + drone.entries[j].skipped <= drone.ticks

\* C23 witness: a job was started, skipped a tick while it ran, panicked, and
\* was started again by a later tick, while the other job was not touched
C23_Witness ==
  /\ drone.part = "cron"
  /\ \E j \in JobSlots :
       /\ drone.entries[j].skipped = 1
       /\ drone.entries[j].panics = 1
       /\ drone.entries[j].started = 2
       /\ drone.entries[j].running = 1

\* C24: when the first info() failed with repository-does-not-exist and the
\* worker has started, the calls before it were info(), init() and one more
\* info(); when the first info() failed with any other error, the startup is
\* fatal and neither init() nor the worker was called.
C24_RepositoryInitialization ==
  drone.part = "startup" =>
    /\ (/\ drone.first = "RepositoryDoesNotExist"
        /\ \E i \in 1..Len(drone.calls) : drone.calls[i] \in {"Run", "RunOnce"})
       => /\ Len(drone.calls) = 4
          /\ SubSeq(drone.calls, 1, 3) = <<"info", "init", "info">>
    /\ drone.first \in RunOutcomes \ {"Success", "Warning", "RepositoryDoesNotExist"}
       => /\ drone.fatal # ""
          /\ drone.calls = <<"info">>

\* C25: the argv passed to the container engine at exec time is the exec
\* label with every reference &{NAME} and &NAME replaced by the value of NAME
\* in the container's environment, a reference to an undefined name left as
\* written.
C25_LabelExpansion ==
  (drone.part = "exec" /\ drone.pc = "executed") =>
    drone.argv = <<ReferencesReplaced(drone.label, 1, drone.env)>>

\* C26: when the config file was removed and the inactivity timeout came
\* without the file having been written again, the watch has sent exactly one
\* error and no update; when the file was created and written again before
\* the timeout, the watch has sent one update and no error.
C26_ConfigFileRemoved ==
  drone.part = "watch" =>
    /\ (/\ Len(FileHistory(drone.history)) >= 2
        /\ FileHistory(drone.history)[1] = "remove"
        /\ FileHistory(drone.history)[Len(FileHistory(drone.history))] = "timeout"
        /\ \A i \in 1..Len(FileHistory(drone.history)) :
             FileHistory(drone.history)[i] \notin {"write", "write invalid"})
       => Sent(drone.history) = <<"error">>
    /\ FileHistory(drone.history) = <<"remove", "create", "write", "timeout">>
       => Sent(drone.history) = <<"update">>

C28_WatchSnapshots ==
  (drone.part = "snapshots" /\ drone.last.op # "none") =>
    /\ (drone.last.op \in {"create", "update"} /\ Participates(drone, drone.last.id)) =>
         /\ drone.last.emitted = "update"
         /\ ContainerIDsOf(drone.last.project) = SeenSoFar(drone)
    /\ (drone.last.op = "destroy" /\ drone.last.known) =>
         /\ drone.last.emitted = "update"
         /\ drone.last.id \notin ContainerIDsOf(drone.last.project)
         /\ SeenSoFar(drone) = {} =>
              /\ ContainerIDsOf(drone.last.project) = {}
              /\ drone.cache[drone.last.project.ProjectName] = NoProject
    /\ ~isBorgdEnabled(InspectOf(drone.last.id, drone.labels[drone.last.id])) =>
         drone.last.emitted = "none"

\* C29: Items and GetItem hold the shared lock and SetItemValue and
\* GetItemForPeer the exclusive lock over all their writes: while a reader
\* holds the lock the value file matches the checksum in memory and in
\* <uuid>.json, no read returns a checksum mismatch or a missing value file,
\* and a caller at a writing step is the only caller past its lock.
C29_VaultLocking ==
  drone.part = "locking" =>
    /\ \A c \in Callers :
         (drone.pc[c] \in {"read", "items"} /\ drone.call[c].name \in {"GetItem", "Items"}) =>
           (c \in drone.lock.r /\ drone.lock.w = 0 /\ ValueMatchesChecksum(drone))
    /\ \A c \in Callers :
         drone.ret[c].err \notin {"checksum mismatch", "item value file not found"}
    /\ \A c \in Callers : drone.ret[c].name = "Items" =>
         (drone.ret[c].value[1].checksum = EmptySum
            \/ \E v \in Values : drone.ret[c].value[1].checksum = sum(v))
    /\ \A c \in Callers : drone.pc[c] \in WritingSteps =>
         /\ drone.lock.w = c
         /\ \A other \in Callers \ {c} : drone.pc[other] \in {"idle", "lock"}

\* C29 witness: SetItemValue has replaced the value file of a populated item
\* and not yet written the metadata, while a GetItem waits for the lock
C29_Witness ==
  /\ drone.part = "locking"
  /\ \E w, r \in Callers :
       /\ drone.pc[w] = "metadata"
       /\ drone.call[w].name = "SetItemValue"
       /\ drone.pc[r] = "lock"
       /\ drone.call[r].name = "GetItem"
  /\ drone.bak # Absent
  /\ ~ValueMatchesChecksum(drone)

\* C30: when SetRecoveryRecipient fails to write the new recipient and there
\* was a previous one, it writes the previous one again in one to three
\* passes; when it returns, it returns its error, .recovery and
\* .recovery.sum hold the previous recipient and every item file is as it
\* was; it does not return only when the third pass failed too.
C30_RecipientRollback ==
  RollbackCase =>
    /\ drone.rollback.passes \in 1..3
    /\ IF proc = "running"
         THEN /\ last.err = "failed to set recovery recipient"
              /\ disk[Path(".recovery", 0)] = Text(drone.rollback.old)
              /\ disk[Path(".recovery.sum", 0)] =
                   HexSum(createRecoveryHash(drone.rollback.old, vault.metadataHmacSecret.data))
              /\ \A id \in Ids : \A f \in {".age", ".bak", ".json"} :
                   disk[Path(f, id)] = drone.rollback.disk[Path(f, id)]
         ELSE proc = "fatal" /\ drone.rollback.passes = 3

\* C30 witness: an item has a value, the write of the new recipient left
\* .recovery changed, the first two passes failed and the third restored the
\* previous recipient
C30_Witness ==
  /\ RollbackCase
  /\ proc = "running"
  /\ drone.rollback.passes = 3
  /\ last.arg # drone.rollback.old
  /\ disk[Path(".recovery", 0)] = Text(drone.rollback.old)
  /\ \E id \in Ids : disk[Path(".age", id)] # Absent

\* C31: the archive step of a dependent-offline container starts only after
\* EnsureContainerRunning of the container has succeeded and
\* EnsureContainerStopped has succeeded for every container of the project
\* that lists it as a dependency; when one of these calls has failed the
\* backup of the container is skipped: no call of the archive step is made.
C31_DependentOfflineProtocol ==
  drone.part = "dependents" =>
    /\ (drone.pc \in {"archive", "archived"}
          \/ \E k \in 1..Len(drone.calls) : drone.calls[k] \in ArchiveCalls) =>
         /\ drone.running = "ok"
         /\ DOMAIN drone.stopped =
              {name \in Keys(drone.job.project) :
                 drone.job.plan[drone.i].ServiceName
                   \in drone.job.project.Containers[name].Dependencies}
         /\ \A name \in DOMAIN drone.stopped : drone.stopped[name] = "ok"
    /\ ((drone.running = "failed" \/ \E name \in DOMAIN drone.stopped :
                                       drone.stopped[name] = "failed")
          /\ \A name \in DOMAIN drone.stopped : drone.stopped[name] # "pending") =>
         /\ drone.pc \in {"stopping", "skipped"}
         /\ \A k \in 1..Len(drone.calls) : drone.calls[k] \notin ArchiveCalls

\* C31 witness: the container has a dependent, both calls succeeded and the
\* archive step ran
C31_Witness ==
  /\ drone.part = "dependents"
  /\ drone.pc = "archived"
  /\ DOMAIN drone.stopped # {}
  /\ \A name \in DOMAIN drone.stopped : drone.stopped[name] = "ok"
  /\ \E k \in 1..Len(drone.calls) : drone.calls[k] \in ArchiveCalls

\* C32: the paths that runVolumeBackup hands to CreateWithPaths are the
\* sources of the container's backup volumes in their order, with no other
\* and no empty entry, and CreateWithPaths does not reject them when every
\* source is an absolute path.
C32_VolumeBackupPaths ==
  (drone.part = "volumes" /\ drone.pc \in {"create", "returned"}) =>
    /\ drone.paths = [i \in 1..Len(drone.BackupVolumes) |-> drone.BackupVolumes[i].Source]
    /\ \A i \in 1..Len(drone.paths) : drone.paths[i] # <<>>
    /\ (drone.pc = "returned"
          /\ \A i \in 1..Len(drone.BackupVolumes) : IsAbs(drone.BackupVolumes[i].Source)) =>
         drone.err # "path is not an absolute path"

BakCopyFailed ==
  BakCase /\ Bak.call.copy = "failed"

\* C34: after any sequence of project snapshots handled by
\* scheduleDockerBackup the scheduler holds at most one job per project name,
\* dockerJobIds maps each scheduled project name to the id of that live entry
\* and holds no id of a removed entry, and a snapshot with zero containers
\* leaves the project with no job.
C34_JobBookkeeping ==
  drone.part = "jobs" =>
    /\ \A name \in JobProjectNames :
         /\ Cardinality(JobEntriesOf(drone, name)) <= 1
         /\ \A e \in JobEntriesOf(drone, name) : drone.w.dockerJobIds[name] = e.id
         /\ drone.w.dockerJobIds[name] # NoEntryID =>
              /\ drone.w.dockerJobIds[name] \notin drone.w.removed
              /\ \E e \in JobEntriesOf(drone, name) : e.id = drone.w.dockerJobIds[name]
    /\ (drone.cbp # NoProject /\ Keys(drone.cbp) = {}) =>
         /\ JobEntriesOf(drone, drone.cbp.ProjectName) = {}
         /\ drone.w.dockerJobIds[drone.cbp.ProjectName] = NoEntryID

\* a project's job was replaced by one of a later snapshot while another
\* project has its job
C34_Witness ==
  /\ drone.part = "jobs"
  /\ \A name \in JobProjectNames : JobEntriesOf(drone, name) # {}
  /\ drone.w.removed # {}
  /\ drone.state = "watching"
  /\ drone.err = NoErr
  /\ Keys(drone.cbp) # {}
  /\ drone.w.dockerJobIds[drone.cbp.ProjectName] = drone.w.nextID

\* a snapshot without containers took a scheduled project's job away
JobsEmptied ==
  /\ drone.part = "jobs"
  /\ drone.cbp # NoProject
  /\ Keys(drone.cbp) = {}
  /\ drone.w.removed # {}
  /\ JobEntriesOf(drone, drone.cbp.ProjectName) = {}

\* the version beside config.go scheduled the previous job again
JobsRestored ==
  /\ drone.part = "jobs"
  /\ drone.version = "config.go"
  /\ drone.err # NoErr
  /\ drone.state = "watching"
  /\ JobEntriesOf(drone, drone.cbp.ProjectName) # {}

\* C35: for every non-empty project whose containers passed discovery,
\* containers without an exec spec included, newContainerProjectBackupJob
\* returns a job or an error and never aborts.
C35_PlanBuildingTotal ==
  (drone.part = "worker" /\ Keys(drone.project) # {}) => drone.state # "panic"

\* C36: in every interleaving of the container watch goroutine with the
\* worker's Run returning, no value is sent on an already closed updates or
\* errors channel and no channel is closed twice.
C36_WatchChannelSafety ==
  drone.part = "channels" => drone.panic = NoPanic

\* a channel was closed by the goroutine and by Run's deferred Close
ChannelsClosedTwice ==
  /\ drone.part = "channels"
  /\ drone.panic = "close of closed channel"
  /\ drone.cause = "watch error"

\* Run returned for a config-watch error and the process ended with no panic
ChannelsQuietExit ==
  /\ drone.part = "channels"
  /\ drone.run = "exited"
  /\ drone.cause = "config-watch error"
  /\ drone.panic = NoPanic

\* C37: the containers that a scheduled job works on are the snapshot from
\* which the job was built (that of its plan): a later watcher event that adds
\* or removes a container in the client's cache does not change the container
\* map held by the job.
C37_JobSnapshotIsolation ==
  drone.part = "job" =>
    \A name \in Services :
      /\ drone.containers[name] # NoContainer =>
           \E i \in 1..Len(drone.plan) : drone.plan[i] = drone.containers[name]
      /\ drone.containers[name] = NoContainer =>
           \A i \in 1..Len(drone.plan) : drone.plan[i].ServiceName # name

\* C38: at most one backup run of a given project executes at any time, also
\* when the project's job was replaced while an invocation of the old job is
\* still running.
C38_OneRunPerProject ==
  drone.part = "cron" =>
    \A j \in JobSlots : drone.entries[j].running + drone.orphans[j] <= 1

\* C39: Unlock called while the vault is already unlocked returns success
\* whatever passphrase is supplied, without comparing it to the key in memory
\* (and without a backend call), and changes neither the enclaves, the item
\* map nor any file.
C39_UnlockWhenUnlocked ==
  [][(last'.op = "Unlock" /\ vault.identityKey # Nil) =>
       /\ last'.err = NoErr
       /\ last'.calls = 0
       /\ vault' = vault
       /\ disk' = disk
       /\ proc' = proc]_vars

\* an unlocked vault with an item that has a value was handed another
\* passphrase than the one that unlocked it, and Unlock returned success
C39_Witness ==
  /\ last.op = "Unlock"
  /\ ~last.wasLocked
  /\ last.arg # FirstPassphrase
  /\ last.err = NoErr
  /\ vault.identityKey = Enclave(deriveKey(FirstPassphrase))
  /\ \E id \in Ids : MapHas(vault.items, id) /\ vault.items.m[id].checksum # EmptySum

\* C40: after LoadConfig succeeds every backup of the returned Config carries
\* the schedule parsed from its Schedule string, so that every static job is
\* registered with that schedule and never with an absent one; after any
\* sequence of config updates the scheduler holds exactly one static job per
\* backup of the latest config and no job of an earlier config.
C40_StaticSchedules ==
  drone.part = "schedules" =>
    /\ \A i \in 1..Len(drone.loaded) :
         /\ BackupSchedule(drone.loaded[i]) # Nil
         /\ BackupSchedule(drone.loaded[i]) = ParseStandard(drone.loaded[i].ScheduleValue).schedule
    /\ \A e \in drone.w.entries : e.schedule # Nil
    /\ Cardinality(drone.w.entries) = Len(drone.loaded)
    /\ Len(drone.w.staticJobIds) = Len(drone.loaded)
    /\ \A i \in 1..Len(drone.loaded) :
         \E e \in drone.w.entries :
           e.id = drone.w.staticJobIds[i] /\ e.backup = drone.loaded[i]

\* the same without the schedules: the scheduler holds one static job per
\* backup of the latest config
SchedulesJobsOfLatestConfig ==
  drone.part = "schedules" =>
    /\ Cardinality(drone.w.entries) = Len(drone.loaded)
    /\ Len(drone.w.staticJobIds) = Len(drone.loaded)
    /\ \A i \in 1..Len(drone.loaded) :
         \E e \in drone.w.entries :
           e.id = drone.w.staticJobIds[i] /\ e.backup = drone.loaded[i]

====
